---- MODULE Spec2Model ----
(***************************************************************************)
(* genDataSet.py: a directory tree of files with seeded pseudo-random      *)
(* contents is planned in memory (RandomDirTree), named, measured and then *)
(* either written to a filesystem or verified against it.                  *)
(*                                                                         *)
(* Modelling decisions.                                                    *)
(*  - numpy.random.RandomState (a Mersenne twister, not part of the        *)
(*    repository) is modelled by a 16-bit linear congruential generator:   *)
(*    a deterministic stream that is a function of the seed alone.  Every  *)
(*    draw advances the stream by one step.                                *)
(*  - A 64-bit seed is identified with its eight little-endian bytes (what *)
(*    .view(numpy.int64) / .view(numpy.uint32) reinterpret).               *)
(*  - A path is the sequence of its components below nothing: the root     *)
(*    directory is <<"root">>, os.path.join appends a component.           *)
(*  - Sizes and counts of the configuration are natural numbers; file size *)
(*    ranges have min <= max.                                              *)
(*  - The files under gen.copied.sourceDir lie outside the generated tree. *)
(***************************************************************************)
EXTENDS Integers, Sequences, FiniteSets, TLC

(***************************************************************************)
(* Bounds of the model.                                                    *)
(***************************************************************************)
MaxSeed   == 1   \* MaxSeed + 1 master seeds
MaxDirs   == 2   \* gen.dirs.num in 0..MaxDirs, gen.dirs.maxDepth in -1..MaxDirs
MaxNodes  == 3   \* dirs.num + files + copies of one configuration
MaxSize   == 1   \* file size ranges within 0..MaxSize + 1
MaxTouched == 1  \* changes made to the filesystem from outside
MaxChunks == 3   \* calls of next() on one chunk generator
MaxDraws  == 2   \* draws from the master stream between generator calls

(***************************************************************************)
(* Program constants.                                                      *)
(***************************************************************************)
KB == 1024
MAX_CHUNK_SIZE == 64 * KB
SeedBytes == 8

None == <<>>

Min(a, b) == IF a <= b THEN a ELSE b

(***************************************************************************)
(* RandomState: the seeded stream.                                         *)
(***************************************************************************)
RngMod == 256 * 256

\* One step of the underlying generator (numpy's, modelled).
NextRaw(s) == (s * 25173 + 13849) % RngMod

\* The eight little-endian bytes of a small non-negative integer seed.
RECURSIVE View(_, _)
View(seed, n) ==
  IF n = 0 THEN <<>> ELSE <<seed % 256>> \o View(seed \div 256, n - 1)

\* Seeding from the words of the seed.
RECURSIVE SeedFold(_, _, _)
SeedFold(bytes, k, h) ==
  IF k > Len(bytes) THEN h
  ELSE SeedFold(bytes, k + 1, (h * 31 + bytes[k] + 1) % RngMod)

\* RandomState(seed): seed is the byte view of an integer.
RandomState(seed) == SeedFold(seed, 1, 0)

\* rng.randint(n): uniform in 0..n-1; the stream moves on.
Randint(s, n) ==
  LET t == NextRaw(s) IN [rng |-> t, val |-> (t \div 256) % n]

\* rng.random_integers(low, high): uniform in low..high, both included.
RandomIntegers(s, low, high) ==
  LET d == Randint(s, high - low + 1) IN [rng |-> d.rng, val |-> low + d.val]

\* rng.choice(seq) == seq[self.randint(len(seq))]
Choice(s, seq) ==
  LET d == Randint(s, Len(seq)) IN [rng |-> d.rng, val |-> seq[d.val + 1]]

\* The value of an expression, as the element of its singleton set.
The(S) == CHOOSE x \in S : TRUE

\* rng.bytes(n) and rng.randint(256, size=n): n successive bytes, the first
\* half of them and then the rest.
RECURSIVE Bytes(_, _)
Bytes(s, n) ==
  IF n <= 0 THEN [rng |-> s, val |-> <<>>]
  ELSE IF n = 1
       THEN LET d == Randint(s, 256) IN [rng |-> d.rng, val |-> <<d.val>>]
       ELSE The({The({[rng |-> rest.rng, val |-> first.val \o rest.val] :
                       rest \in {Bytes(first.rng, n - n \div 2)}}) :
                 first \in {Bytes(s, n \div 2)}})

\* rng.randomSeed(): eight random bytes read as one 64-bit integer.
RandomSeed(s) == Bytes(s, SeedBytes)

(***************************************************************************)
(* State.                                                                  *)
(***************************************************************************)
VARIABLES
  gen,       \* the configuration (the global Config `gen`)
  plan,      \* the options (verify, seed) of the invocations, in order
  src,       \* the files under gen.copied.sourceDir: name -> [exists, data]
  fs,        \* the destination filesystem: a set of [path, kind, data]
  run,       \* number of process invocations started so far
  verify,    \* options.verify of the current invocation
  pc,        \* position of the current invocation
  exc,       \* the exception that ended the invocation, "none" otherwise
  rng,       \* RandomDirTree.rng: the master stream
  nodes,     \* the Node objects; nodes[1] is RandomDirTree.root
  dirNodes,  \* RandomDirTree.dirNodes: the attachment candidates
  loc,       \* local variables of _createNodes and the functions it calls
  drawLog,   \* history: what each draw from the master stream was for
  stats,     \* GenerateStats
  stack,     \* call stack of the recursive write / verify traversal
  vres,      \* value returned by node.verify(), per node that returned
  hist,      \* history: how the earlier invocations ended
  tree1,     \* history: the node table built by the first invocation
  touched,   \* history: number of outside changes to the filesystem
  gens,      \* chunk generator objects (FileNode.generateChunks())
  synced,    \* the paths the invocation has passed to os.fsync, in order
  traceFile, \* processTrace: the TraceFile object
  traceTuples \* processTrace: the loop of TraceFile._processTraceTuples

vars == <<gen, plan, src, fs, run, verify, pc, exc, rng, nodes, dirNodes, loc,
          drawLog, stats, stack, vres, hist, tree1, touched, gens, synced,
          traceFile, traceTuples>>

CategoryNames == <<"huge", "large", "medium", "small">>
RootDir == <<"root">>
SrcNames == <<"srcA", "srcB">>

(***************************************************************************)
(* Node, DirNode, FileNode, CopyNode.                                      *)
(***************************************************************************)
\* Node.__init__ with the fields of every node class.  category and cloneOf
\* are history: the size category that created a file node and, for a
\* clone, the node it was copied from.
Node(kind) ==
  [kind |-> kind, parent |-> 0, depth |-> 0, path |-> None, children |-> <<>>,
   fileSeed |-> None, fileSize |-> 0, sourcePath |-> "",
   category |-> "", cloneOf |-> 0]

DirNode == Node("dir")

\* A file node that draws its size before its seed.
FileNodeSizeFirst(s, catName) ==
  LET size == RandomIntegers(s, gen[catName].min, gen[catName].max)
      seed == RandomSeed(size.rng)
  IN  [rng  |-> seed.rng,
       node |-> [Node("file") EXCEPT !.fileSeed = seed.val,
                                     !.fileSize = size.val,
                                     !.category = catName]]

\* FileNode.__init__: draws the seed, then the size.
FileNode(s, catName) ==
  LET seed == RandomSeed(s)
      size == RandomIntegers(seed.rng, gen[catName].min, gen[catName].max)
  IN  [rng  |-> size.rng,
       node |-> [Node("file") EXCEPT !.fileSeed = seed.val,
                                     !.fileSize = size.val,
                                     !.category = catName]]

CopyNode(sourcePath) == [Node("copy") EXCEPT !.sourcePath = sourcePath]

\* DirNode.isRoot
IsRoot(ns, id) == ns[id].parent = 0

\* An addNode that leaves the node's depth as Node.__init__ set it.
AddNodeKeepDepth(ns, parent, id) ==
  [ns EXCEPT ![id].parent = parent,
             ![parent].children = Append(@, id)]

\* An addNode that puts the node first among the children.
AddNodeFirst(ns, parent, id) ==
  [ns EXCEPT ![id].parent = parent,
             ![id].depth = ns[parent].depth + 1,
             ![parent].children = <<id>> \o @]

\* DirNode.addNode with Node.setParent: node id becomes the last child.
AddNode(ns, parent, id) ==
  [ns EXCEPT ![id].parent = parent,
             ![id].depth = ns[parent].depth + 1,
             ![parent].children = Append(@, id)]

\* An _attach that makes every node a candidate, not only directories.
AttachAll(t, node) ==
  LET c      == Choice(t.rng, t.dirNodes)
      tooDeep == /\ node.kind = "dir"
                 /\ t.nodes[c.val].depth > 0
                 /\ t.nodes[c.val].depth >= gen.dirs.maxDepth
      parent == IF tooDeep THEN t.nodes[c.val].parent ELSE c.val
      id     == Len(t.nodes) + 1
  IN  [rng      |-> c.rng,
       dirNodes |-> Append(t.dirNodes, id),
       nodes    |-> AddNode(Append(t.nodes, node), parent, id),
       log      |-> Append(t.log, "attach")]

\* RandomDirTree._attach on the tree state t = [rng, nodes, dirNodes, log].
Attach(t, node) ==
  LET c      == Choice(t.rng, t.dirNodes)
      tooDeep == /\ node.kind = "dir"
                 /\ t.nodes[c.val].depth > 0
                 /\ t.nodes[c.val].depth >= gen.dirs.maxDepth
      parent == IF tooDeep THEN t.nodes[c.val].parent ELSE c.val
      id     == Len(t.nodes) + 1
  IN  [rng      |-> c.rng,
       dirNodes |-> IF node.kind = "dir" THEN Append(t.dirNodes, id)
                                          ELSE t.dirNodes,
       nodes    |-> AddNode(Append(t.nodes, node), parent, id),
       log      |-> Append(t.log, "attach")]

\* Clones that are new files of the base's category, not copies of the base.
RECURSIVE AttachFresh(_, _, _)
AttachFresh(t, base, copies) ==
  IF copies = 0 THEN t
  ELSE AttachFresh(
         The({Attach([t EXCEPT !.rng = f.rng],
                     [f.node EXCEPT !.cloneOf = base]) :
              f \in {[rng  |-> RandomSeed(t.rng).rng,
                      node |-> [t.nodes[base] EXCEPT
                                  !.fileSeed = RandomSeed(t.rng).val]]}}),
         base, copies - 1)

\* The loop `for i in range(copies): self._attach(copy.copy(fileNode))`.
RECURSIVE AttachClones(_, _, _)
AttachClones(t, base, copies) ==
  IF copies = 0 THEN t
  ELSE AttachClones(Attach(t, [t.nodes[base] EXCEPT !.cloneOf = base]),
                    base, copies - 1)

Tree == [rng |-> rng, nodes |-> nodes, dirNodes |-> dirNodes, log |-> drawLog]

(***************************************************************************)
(* Naming and measuring.                                                   *)
(***************************************************************************)
\* Node.setName: os.path.join(self.parent.path, gen.name_prefix + str(name))
SetName(ns, id, name) ==
  [ns EXCEPT ![id].path =
     Append(ns[ns[id].parent].path, gen.name_prefix \o ToString(name))]

\* Node.nameNodes / DirNode.nameNodes on st = [nodes, next], next being the
\* value itertools.count yields next.
RECURSIVE NameNodes(_, _), NameChildren(_, _, _)

\* A namer that names a directory after its children.
NameNodesAfter(st, id) ==
  LET below == IF st.nodes[id].kind = "dir"
               THEN NameChildren(st, st.nodes[id].children, 1)
               ELSE st
  IN  IF IsRoot(st.nodes, id) THEN below
      ELSE [nodes |-> SetName(below.nodes, id, below.next),
            next  |-> below.next + 1]

NameNodes(st, id) ==
  LET named == IF IsRoot(st.nodes, id) THEN st
               ELSE [nodes |-> SetName(st.nodes, id, st.next),
                     next  |-> st.next + 1]
  IN  IF st.nodes[id].kind = "dir"
      THEN NameChildren(named, st.nodes[id].children, 1)
      ELSE named
NameChildren(st, kids, k) ==
  IF k > Len(kids) THEN st
  ELSE NameChildren(NameNodes(st, kids[k]), kids, k + 1)

\* os.path.getsize of a source file.
SourceSize(name) == Len(src[name].data)

\* DirNode.measure, FileNode.measure, CopyNode.measure.
RECURSIVE Measure(_, _, _), MeasureChildren(_, _, _, _)

\* A measurement that counts the root as a directory.
MeasureEveryDir(st, ns, id) ==
  CASE ns[id].kind = "dir" ->
         MeasureChildren([st EXCEPT !.numDirs = @ + 1],
                         ns, ns[id].children, 1)
    [] ns[id].kind = "file" ->
         [st EXCEPT !.numFiles = @ + 1, !.numBytes = @ + ns[id].fileSize]
    [] ns[id].kind = "copy" ->
         [st EXCEPT !.numFiles = @ + 1,
                    !.numBytes = @ + SourceSize(ns[id].sourcePath)]

Measure(st, ns, id) ==
  CASE ns[id].kind = "dir" ->
         MeasureChildren(IF IsRoot(ns, id) THEN st
                         ELSE [st EXCEPT !.numDirs = @ + 1],
                         ns, ns[id].children, 1)
    [] ns[id].kind = "file" ->
         [st EXCEPT !.numFiles = @ + 1, !.numBytes = @ + ns[id].fileSize]
    [] ns[id].kind = "copy" ->
         [st EXCEPT !.numFiles = @ + 1,
                    !.numBytes = @ + SourceSize(ns[id].sourcePath)]
MeasureChildren(st, ns, kids, k) ==
  IF k > Len(kids) THEN st
  ELSE MeasureChildren(Measure(st, ns, kids[k]), ns, kids, k + 1)

\* GenerateStats.__init__
GenerateStats == [numBytes |-> 0, numFiles |-> 0, numDirs |-> 0, verified |-> TRUE]

(***************************************************************************)
(* IEEE-754 double arithmetic of                                           *)
(*   compressSize = int(math.floor(chunkSize * (rate / 100.0)))            *)
(* A positive double is m * 2^(-k) with a significand m of 53 bits; a      *)
(* result is rounded to the nearest double, ties to even.  A natural       *)
(* number too wide for the arithmetic of the checker is the sequence of    *)
(* its digits in base 2^13, least significant first; chunkSize < 2^17.     *)
(***************************************************************************)
Significand == 53
LimbBits == 13

RECURSIVE Pow2(_)
Pow2(n) == IF n = 0 THEN 1 ELSE 2 * Pow2(n - 1)

Limb == Pow2(LimbBits)

RECURSIVE LimbsOf(_)
LimbsOf(n) == IF n = 0 THEN <<>> ELSE <<n % Limb>> \o LimbsOf(n \div Limb)

RECURSIVE ValueOf(_)
ValueOf(limbs) ==
  IF limbs = <<>> THEN 0 ELSE Head(limbs) + Limb * ValueOf(Tail(limbs))

\* limbs + 1, from digit i on
RECURSIVE Increment(_, _)
Increment(limbs, i) ==
  IF i > Len(limbs) THEN <<1>>
  ELSE IF limbs[i] < Limb - 1
       THEN <<limbs[i] + 1>> \o SubSeq(limbs, i + 1, Len(limbs))
       ELSE <<0>> \o Increment(limbs, i + 1)

\* limbs * c + carry, from digit i on
RECURSIVE Times(_, _, _, _)
Times(limbs, i, c, carry) ==
  IF i > Len(limbs) THEN LimbsOf(carry)
  ELSE LET v == limbs[i] * c + carry
       IN  <<v % Limb>> \o Times(limbs, i + 1, c, v \div Limb)

\* The next n digits, most significant first, of the quotient r / 100 for
\* r < 100, and the remainder left.
RECURSIVE Quotient(_, _)
Quotient(r, n) ==
  IF n = 0 THEN [digits |-> <<>>, rem |-> r]
  ELSE LET q == Quotient((r * Limb) % 100, n - 1)
       IN  [digits |-> <<(r * Limb) \div 100>> \o q.digits, rem |-> q.rem]

Reverse(seq) == [i \in 1..Len(seq) |-> seq[Len(seq) + 1 - i]]

\* Bit i (from 0) of the number.
Bit(limbs, i) ==
  IF i \div LimbBits + 1 > Len(limbs) THEN 0
  ELSE (limbs[i \div LimbBits + 1] \div Pow2(i % LimbBits)) % 2

\* The number of bits of the number.
BitLength(limbs) ==
  LET width == LimbBits * Len(limbs)
  IN  CHOOSE n \in 0..width :
        /\ \A i \in n..(width - 1) : Bit(limbs, i) = 0
        /\ n > 0 => Bit(limbs, n - 1) = 1

\* The least j with p * 2^j >= 100, for p >= 1.
RECURSIVE Scale(_)
Scale(p) == IF p >= 100 THEN 0 ELSE 1 + Scale(2 * p)

\* rate / 100.0 for rate = float(p), 1 <= p <= 100: [m, k], value m * 2^(-k).
\* p * 2^j / 100 is in [1, 2): 52 bits of it follow the leading one.
DivideBy100(p) ==
  LET j  == Scale(p)
      a  == p * Pow2(j)
      q  == Quotient(a % 100, (Significand - 1) \div LimbBits)
      m  == Reverse(<<a \div 100>> \o q.digits)
      up == 2 * q.rem > 100 \/ (2 * q.rem = 100 /\ m[1] % 2 = 1)
  IN  [m |-> IF up THEN Increment(m, 1) ELSE m, k |-> Significand - 1 + j]

\* int(math.floor(x)) for the double x nearest to exact * 2^(-k): exact is
\* rounded to a multiple of 2^t, which carries into the integer part when the
\* bits from t up to k are all ones.
Floor(exact, k) ==
  LET length == BitLength(exact)
      t      == IF length > Significand THEN length - Significand ELSE 0
      up     == /\ t > 0
                /\ Bit(exact, t - 1) = 1
                /\ \/ \E i \in 0..(t - 2) : Bit(exact, i) = 1
                   \/ Bit(exact, t) = 1
      whole  == ValueOf(SubSeq(exact, k \div LimbBits + 1, Len(exact)))
                  \div Pow2(k % LimbBits)
  IN  IF up /\ \A i \in t..(k - 1) : Bit(exact, i) = 1 THEN whole + 1 ELSE whole

\* int(math.floor(chunkSize * (rate / 100.0))) for rate = float(percentage)
FloorOfProduct(chunkSize, percentage) ==
  IF percentage <= 0 \/ chunkSize <= 0 THEN 0
  ELSE LET q == DivideBy100(percentage)
       IN  Floor(Times(q.m, 1, chunkSize, 0), q.k)

(***************************************************************************)
(* FileNode.generateChunks: the generator object.                          *)
(***************************************************************************)
\* The call generateChunks(): a generator that has not run yet.
Generator(fileSeed, fileSize) ==
  [state |-> "created", fileSeed |-> fileSeed, fileSize |-> fileSize,
   rng |-> 0, maxChunkSize |-> 0, remaining |-> 0]

\* The chunk sizes and percentages of the configurations explored, and
\* compressSize for each of them, computed once.
ChunkSizes == (0..(MaxSize + 2)) \cup {50, 100}
Percentages == {0, 50, 58, 100}
CompressSizes ==
  [chunkSize \in ChunkSizes, percentage \in Percentages |->
     FloorOfProduct(chunkSize, percentage)]

CompressSize(chunkSize) == CompressSizes[chunkSize, gen.compressible.percentage]

\* A generator that continues the master stream instead of seeding its own.
GeneratorShared(g) ==
  IF g.state # "created" THEN g
  ELSE [g EXCEPT !.state = "suspended",
                 !.rng = rng,
                 !.maxChunkSize = IF gen.compressible.percentage > 0
                                  THEN gen.compressible.blockSize
                                  ELSE MAX_CHUNK_SIZE,
                 !.remaining = g.fileSize]

\* The statements before the loop, run by the first next().
GeneratorStarted(g) ==
  IF g.state # "created" THEN g
  ELSE [g EXCEPT !.state = "suspended",
                 !.rng = RandomState(g.fileSeed),
                 !.maxChunkSize = IF gen.compressible.percentage > 0
                                  THEN gen.compressible.blockSize
                                  ELSE MAX_CHUNK_SIZE,
                 !.remaining = g.fileSize]

\* next(generator): the generator after the call, and the chunk it yields or
\* stop (StopIteration); fill is the chunk's compressSize.
GeneratorNext(g) ==
  LET g0 == GeneratorStarted(g)
  IN  IF g0.remaining > 0
      THEN LET chunkSize    == Min(g0.remaining, g0.maxChunkSize)
               compressSize == CompressSize(chunkSize)
               random       == Bytes(g0.rng, chunkSize - compressSize)
           IN  [g     |-> [g0 EXCEPT !.remaining = @ - chunkSize,
                                     !.rng = random.rng],
                stop  |-> FALSE,
                fill  |-> compressSize,
                chunk |-> [i \in 1..compressSize |-> 255] \o random.val]
      ELSE [g |-> [g0 EXCEPT !.state = "done"], stop |-> TRUE, fill |-> 0,
            chunk |-> <<>>]

\* list(generateChunks()): every chunk, in order.
RECURSIVE Chunks(_)
Chunks(g) ==
  LET n == GeneratorNext(g)
  IN  IF n.stop THEN <<>> ELSE <<n.chunk>> \o Chunks(n.g)

RECURSIVE Concat(_)
Concat(seqs) == IF seqs = <<>> THEN <<>> ELSE Head(seqs) \o Concat(Tail(seqs))

(***************************************************************************)
(* The filesystem.                                                         *)
(***************************************************************************)
Exists(p) == \E e \in fs : e.path = p
Entry(p)  == CHOOSE e \in fs : e.path = p
IsDir(p)  == \E e \in fs : e.path = p /\ e.kind = "dir"    \* os.path.isdir
IsFile(p) == \E e \in fs : e.path = p /\ e.kind = "file"   \* os.path.isfile
DirEntry(p) == [path |-> p, kind |-> "dir", data |-> <<>>]
FileEntry(p, d) == [path |-> p, kind |-> "file", data |-> d]

(***************************************************************************)
(* One invocation: main, genTree, RandomDirTree.__init__.                  *)
(***************************************************************************)
NoLoc == [i |-> 0, cat |-> 1, numFiles |-> 0, numCoal |-> 0,
          numCoalLegacy |-> 0, fileList |-> <<>>]

\* gen.randseed = None, options.seed is None
NoSeed == 0 - 1

\* The seeds of the master stream: seeds whose streams differ in the first
\* directory draws, so that both flat and nested trees are built.
RandSeeds == {2 * s + 1 : s \in 0..MaxSeed}

\* A main that generates a seed in verify mode too.
SeedsAlways(options) ==
  IF options.seed # NoSeed THEN {options.seed} ELSE RandSeeds

\* main, `if (gen.randseed is None)`: the values gen.randseed may have after
\* it.  NoSeed stands for `return 2`; a seed the program generates comes
\* from a stream that nothing seeds.
SeedsOf(options) ==
  IF options.seed # NoSeed THEN {options.seed}
  ELSE IF options.verify THEN {NoSeed}
  ELSE RandSeeds

Raise(e) == pc' = "aborted" /\ exc' = e

\* main up to its call of genTree, and genTree up to the construction of the
\* tree: the seed is the one of the command line or, when generating, a
\* generated one; verifying without a seed returns 2.  rootDir is
\* gen.root.dir, which is created when it is missing; the statistics are
\* initialised.
StartRun ==
  /\ pc \in {"idle", "done", "aborted", "refused"}
  /\ run < Len(plan)
  /\ verify' = plan[run + 1].verify
  /\ run' = run + 1
  /\ \E seed \in SeedsOf(plan[run + 1]) :
       /\ gen' = [gen EXCEPT !.randseed = seed]
       /\ IF seed = NoSeed
          THEN pc' = "refused" /\ fs' = fs
          ELSE /\ pc' = "construct"
               /\ fs' = IF IsDir(RootDir) THEN fs ELSE fs \cup {DirEntry(RootDir)}
  /\ stats' = GenerateStats
  /\ exc' = "none"
  /\ nodes' = <<>> /\ dirNodes' = <<>> /\ rng' = 0 /\ loc' = NoLoc
  /\ drawLog' = <<>> /\ stack' = <<>> /\ vres' = <<>> /\ synced' = <<>>
  /\ hist' = IF run = 0 THEN hist
             ELSE Append(hist, [verify |-> verify, pc |-> pc, exc |-> exc,
                                verified |-> stats.verified,
                                seed |-> gen.randseed])
  /\ UNCHANGED <<plan, src, tree1, touched, gens, traceFile, traceTuples>>

\* A construction whose stream is seeded differently in every invocation.
ConstructUnseeded ==
  /\ pc = "construct"
  /\ rng' = RandomState(View(gen.randseed + run, SeedBytes))
  /\ nodes' = <<[DirNode EXCEPT !.path = RootDir]>>
  /\ dirNodes' = <<1>>
  /\ loc' = NoLoc
  /\ pc' = "dirs" /\ exc' = exc
  /\ UNCHANGED <<gen, plan, src, fs, run, verify, drawLog, stats, stack, vres,
                 hist, tree1, touched, gens, synced, traceFile, traceTuples>>

\* RandomDirTree.__init__ up to the call of _createNodes.  The message of the
\* Error for a negative maxDepth is built as str + int, which raises
\* TypeError before the Error exists.
Construct ==
  /\ pc = "construct"
  /\ rng' = RandomState(View(gen.randseed, SeedBytes))
  /\ nodes' = <<[DirNode EXCEPT !.path = RootDir]>>
  /\ dirNodes' = <<1>>
  /\ loc' = NoLoc
  /\ IF gen.dirs.maxDepth < 0
     THEN Raise("TypeError")
     ELSE pc' = "dirs" /\ exc' = exc
  /\ UNCHANGED <<gen, plan, src, fs, run, verify, drawLog, stats, stack, vres,
                 hist, tree1, touched, gens, synced, traceFile, traceTuples>>

\* One iteration of `for i in range(gen.dirs.num): self._attach(DirNode())`.
AttachDir ==
  /\ pc = "dirs"
  /\ loc.i < gen.dirs.num
  /\ \E t \in {Attach(Tree, DirNode)} :
         /\ rng' = t.rng /\ nodes' = t.nodes /\ dirNodes' = t.dirNodes
         /\ drawLog' = t.log
  /\ loc' = [loc EXCEPT !.i = @ + 1]
  /\ UNCHANGED <<gen, plan, src, fs, run, verify, pc, exc, stats, stack, vres,
                 hist, tree1, touched, gens, synced, traceFile, traceTuples>>

\* A _createNodes that keeps root among the candidates.
KeepRoot ==
  /\ pc = "dirs"
  /\ loc.i = gen.dirs.num
  /\ pc' = "category"
  /\ loc' = [loc EXCEPT !.cat = 1]
  /\ UNCHANGED <<gen, plan, src, fs, run, verify, exc, rng, nodes, dirNodes,
                 drawLog, stats, stack, vres, hist, tree1, touched, gens,
                 synced, traceFile, traceTuples>>

\* `if (len(self.dirNodes) > 1): self.dirNodes.pop(0)` after the loop.
PopRoot ==
  /\ pc = "dirs"
  /\ loc.i = gen.dirs.num
  /\ dirNodes' = IF Len(dirNodes) > 1 THEN Tail(dirNodes) ELSE dirNodes
  /\ pc' = "category"
  /\ loc' = [loc EXCEPT !.cat = 1]
  /\ UNCHANGED <<gen, plan, src, fs, run, verify, exc, rng, nodes, drawLog,
                 stats, stack, vres, hist, tree1, touched, gens, synced,
                 traceFile, traceTuples>>

\* An entry of _createFileNodes that does not check the counters.
EnterCategoryUnchecked ==
  /\ pc = "category"
  /\ loc.cat <= Len(CategoryNames)
  /\ \E category \in {gen[CategoryNames[loc.cat]]} :
         /\ loc' = [loc EXCEPT !.numFiles = category.num,
                               !.numCoal = category.numCoalescent,
                               !.numCoalLegacy = category.coalescent,
                               !.cat = IF category.num > 0 THEN @ ELSE @ + 1]
         /\ pc' = IF category.num > 0 THEN "files" ELSE "category"
         /\ exc' = exc
  /\ UNCHANGED <<gen, plan, src, fs, run, verify, rng, nodes, dirNodes, drawLog,
                 stats, stack, vres, hist, tree1, touched, gens, synced,
                 traceFile, traceTuples>>

\* Entry of _createFileNodes(category): the counters and their check.
EnterCategory ==
  /\ pc = "category"
  /\ loc.cat <= Len(CategoryNames)
  /\ \E category \in {gen[CategoryNames[loc.cat]]} :
         /\ loc' = [loc EXCEPT !.numFiles = category.num,
                               !.numCoal = category.numCoalescent,
                               !.numCoalLegacy = category.coalescent,
                               !.cat = IF category.num > 0 THEN @ ELSE @ + 1]
         /\ IF \/ category.numCoalescent > category.num
               \/ category.coalescent > category.num
            THEN Raise("Error")
            ELSE /\ pc' = IF category.num > 0 THEN "files" ELSE "category"
                 /\ exc' = exc
  /\ UNCHANGED <<gen, plan, src, fs, run, verify, rng, nodes, dirNodes, drawLog,
                 stats, stack, vres, hist, tree1, touched, gens, synced,
                 traceFile, traceTuples>>

\* A legacy mode whose counter decreases by the number of clones drawn.
CoalescenceByClones(c) ==
  IF c.numCoal > 0
  THEN IF c.numFiles = c.numCoal
       THEN [c EXCEPT !.numCoal = 0] @@ [copies |-> c.numCoal]
       ELSE LET d == RandomIntegers(c.rng, 1, 3)
                n == Min(c.numCoal, d.val)
            IN  [c EXCEPT !.rng = d.rng, !.log = Append(@, "copies"),
                          !.numCoal = @ - n] @@ [copies |-> n]
  ELSE IF c.numCoalLegacy > 0
       THEN LET d == RandomIntegers(c.rng, 1, 3)
            IN  [c EXCEPT !.rng = d.rng, !.log = Append(@, "copies"),
                          !.numCoalLegacy = @ - Min(@, d.val)]
                  @@ [copies |-> d.val]
       ELSE c @@ [copies |-> 0]

\* The number of clones of the base file just attached, on
\* c = [rng, log, numFiles, numCoal, numCoalLegacy] (numFiles already
\* decremented).
Coalescence(c) ==
  IF c.numCoal > 0
  THEN IF c.numFiles = c.numCoal
       THEN [c EXCEPT !.numCoal = 0] @@ [copies |-> c.numCoal]
       ELSE LET d == RandomIntegers(c.rng, 1, 3)
                n == Min(c.numCoal, d.val)
            IN  [c EXCEPT !.rng = d.rng, !.log = Append(@, "copies"),
                          !.numCoal = @ - n] @@ [copies |-> n]
  ELSE IF c.numCoalLegacy > 0
       THEN LET d == RandomIntegers(c.rng, 1, 3)
            IN  [c EXCEPT !.rng = d.rng, !.log = Append(@, "copies"),
                          !.numCoalLegacy = @ - 1] @@ [copies |-> d.val]
       ELSE c @@ [copies |-> 0]

\* Clones made without regard to the files remaining.
Unclamped(copies, numFiles) == copies

\* `copies = min(copies, numFiles)`
Clamp(copies, numFiles) == Min(copies, numFiles)

\* One iteration of `while (numFiles > 0)` in _createFileNodes: the base
\* file, the number of its clones, the clones.
CreateFileNodes ==
  /\ pc = "files"
  /\ loc.numFiles > 0
  /\ \E f \in {FileNode(rng, CategoryNames[loc.cat])} :
     \E t1 \in {Attach([Tree EXCEPT !.rng = f.rng,
                                   !.log = @ \o <<"seed", "size">>], f.node)} :
     \E c \in {Coalescence([rng |-> t1.rng, log |-> t1.log,
                            numFiles |-> loc.numFiles - 1,
                            numCoal |-> loc.numCoal,
                            numCoalLegacy |-> loc.numCoalLegacy])} :
     \E copies \in {Clamp(c.copies, c.numFiles)} :
     \E t2 \in {AttachClones([t1 EXCEPT !.rng = c.rng, !.log = c.log],
                             Len(t1.nodes), copies)} :
       /\ rng' = t2.rng /\ nodes' = t2.nodes /\ dirNodes' = t2.dirNodes
       /\ drawLog' = t2.log
       /\ loc' = [loc EXCEPT !.numFiles = c.numFiles - copies,
                             !.numCoal = c.numCoal,
                             !.numCoalLegacy = c.numCoalLegacy,
                             !.cat = IF c.numFiles > copies THEN @ ELSE @ + 1]
       /\ pc' = IF c.numFiles > copies THEN "files" ELSE "category"
  /\ UNCHANGED <<gen, plan, src, fs, run, verify, exc, stats, stack, vres, hist,
                 tree1, touched, gens, synced, traceFile, traceTuples>>

\* RandomDirTree._fileTree filtered by os.path.isfile: the regular files
\* under gen.copied.sourceDir, in the order os.walk lists them.
FileList == SelectSeq(SrcNames, LAMBDA n : src[n].exists)

\* An entry of _createCopyNodes that creates no copy when it finds no
\* source file.
EnterCopyNodesLenient ==
  /\ pc = "category"
  /\ loc.cat > Len(CategoryNames)
  /\ IF gen.copied.num = 0 \/ FileList = <<>>
     THEN pc' = "name" /\ exc' = exc /\ loc' = loc
     ELSE /\ loc' = [loc EXCEPT !.fileList = FileList, !.i = 0]
          /\ pc' = "copies" /\ exc' = exc
  /\ UNCHANGED <<gen, plan, src, fs, run, verify, rng, nodes, dirNodes, drawLog,
                 stats, stack, vres, hist, tree1, touched, gens, synced,
                 traceFile, traceTuples>>

\* Entry of _createCopyNodes: nothing to do, or the list of source files.
EnterCopyNodes ==
  /\ pc = "category"
  /\ loc.cat > Len(CategoryNames)
  /\ IF gen.copied.num = 0
     THEN pc' = "name" /\ exc' = exc /\ loc' = loc
     ELSE /\ loc' = [loc EXCEPT !.fileList = FileList, !.i = 0]
          /\ IF FileList = <<>> THEN Raise("Error")
                                ELSE pc' = "copies" /\ exc' = exc
  /\ UNCHANGED <<gen, plan, src, fs, run, verify, rng, nodes, dirNodes, drawLog,
                 stats, stack, vres, hist, tree1, touched, gens, synced,
                 traceFile, traceTuples>>

\* One iteration of `for i in range(gen.copied.num)` in _createCopyNodes.
CreateCopyNode ==
  /\ pc = "copies"
  /\ loc.i < gen.copied.num
  /\ \E c \in {Choice(rng, loc.fileList)} :
     \E t \in {Attach([Tree EXCEPT !.rng = c.rng, !.log = Append(@, "source")],
                      CopyNode(c.val))} :
         /\ rng' = t.rng /\ nodes' = t.nodes /\ dirNodes' = t.dirNodes
         /\ drawLog' = t.log
  /\ loc' = [loc EXCEPT !.i = @ + 1]
  /\ pc' = IF loc.i + 1 < gen.copied.num THEN "copies" ELSE "name"
  /\ UNCHANGED <<gen, plan, src, fs, run, verify, exc, stats, stack, vres, hist,
                 tree1, touched, gens, synced, traceFile, traceTuples>>

\* RandomDirTree.__init__ after _createNodes: the names, then the statistics.
NameAndMeasure ==
  /\ pc = "name"
  /\ IF gen.readable_filenames
     THEN \E named \in {NameNodes([nodes |-> nodes, next |-> 0], 1).nodes} :
              /\ nodes' = named
              /\ stats' = Measure(stats, named, 1)
              /\ tree1' = IF run = 1 THEN named ELSE tree1
              /\ pc' = "built" /\ exc' = exc
     ELSE /\ Raise("Error")
          /\ UNCHANGED <<nodes, stats, tree1>>
  /\ UNCHANGED <<gen, plan, src, fs, run, verify, rng, dirNodes, loc, drawLog,
                 stack, vres, hist, touched, gens, synced,
                 traceFile, traceTuples>>

(***************************************************************************)
(* Writing the tree: RandomDirTree.write, DirNode.write, FileNode.write,   *)
(* CopyNode.write.  The recursion is the variable stack: one frame         *)
(* [node, k] per DirNode.write (or verify) in progress, k being the index  *)
(* of the child its loop visits next.                                      *)
(***************************************************************************)
Frame(id) == [node |-> id, k |-> 1]

RemovePath(files, p) == {e \in files : e.path # p}

\* generateChunks never leaves its loop: chunks of size zero.
Diverges(fileSize) ==
  /\ fileSize > 0
  /\ gen.compressible.percentage > 0
  /\ gen.compressible.blockSize = 0

\* A writer that loses the last byte of a file.
ShortContents(node) ==
  Concat(Chunks(Generator(node.fileSeed, node.fileSize - 1)))

\* The bytes FileNode.write writes through `for chunk in generateChunks()`.
Contents(node) == Concat(Chunks(Generator(node.fileSeed, node.fileSize)))

\* FileNode.truncate up to its write of a str to the binary file.
Truncated(node) == [i \in 1..node.fileSize |-> 0]

\* A writer that fsyncs a directory as soon as it has created it.
NodeWriteSyncFirst(id) ==
  LET node == nodes[id]
      same == [fs |-> fs, stack |-> stack, exc |-> "none", synced |-> synced]
      first == IF gen.fsync THEN Append(synced, node.path) ELSE synced
  IN  CASE node.kind = "dir" ->
             IF IsRoot(nodes, id)
             THEN [same EXCEPT !.stack = <<Frame(id)>> \o stack,
                               !.synced = first]
             ELSE IF Exists(node.path)
                  THEN [same EXCEPT !.exc = "FileExistsError"]
                  ELSE [same EXCEPT !.fs = fs \cup {DirEntry(node.path)},
                                    !.stack = <<Frame(id)>> \o stack,
                                    !.synced = first]
        [] node.kind = "file" ->
             IF gen.truncate /\ node.fileSize > 0
             THEN [same EXCEPT !.fs = RemovePath(fs, node.path)
                                        \cup {FileEntry(node.path, Truncated(node))},
                               !.exc = "TypeError"]
             ELSE IF Diverges(node.fileSize)
                  THEN [same EXCEPT !.fs = RemovePath(fs, node.path)
                                             \cup {FileEntry(node.path, <<>>)},
                                    !.exc = "loop"]
                  ELSE [same EXCEPT !.fs = RemovePath(fs, node.path)
                                    \cup {FileEntry(node.path, Contents(node))},
                                    !.synced = first]
        [] node.kind = "copy" ->
             IF src[node.sourcePath].exists
             THEN [same EXCEPT !.fs = RemovePath(fs, node.path)
                     \cup {FileEntry(node.path, src[node.sourcePath].data)}]
             ELSE [same EXCEPT !.exc = "FileNotFoundError"]

\* The call node.write() of node id: the filesystem, the stack and the
\* fsynced paths after it, the exception it raises (or "none"), or "loop"
\* when it never returns.  A file is fsynced once its chunks are written.
NodeWrite(id) ==
  LET node == nodes[id]
      same == [fs |-> fs, stack |-> stack, exc |-> "none", synced |-> synced]
  IN  CASE node.kind = "dir" ->
             IF IsRoot(nodes, id)
             THEN [same EXCEPT !.stack = <<Frame(id)>> \o stack]
             ELSE IF Exists(node.path)
                  THEN [same EXCEPT !.exc = "FileExistsError"]
                  ELSE [same EXCEPT !.fs = fs \cup {DirEntry(node.path)},
                                    !.stack = <<Frame(id)>> \o stack]
        [] node.kind = "file" ->
             IF gen.truncate /\ node.fileSize > 0
             THEN [same EXCEPT !.fs = RemovePath(fs, node.path)
                                        \cup {FileEntry(node.path, Truncated(node))},
                               !.exc = "TypeError"]
             ELSE IF Diverges(node.fileSize)
                  THEN [same EXCEPT !.fs = RemovePath(fs, node.path)
                                             \cup {FileEntry(node.path, <<>>)},
                                    !.exc = "loop"]
                  ELSE [same EXCEPT !.fs = RemovePath(fs, node.path)
                                    \cup {FileEntry(node.path, Contents(node))},
                                    !.synced = IF gen.fsync
                                               THEN Append(synced, node.path)
                                               ELSE synced]
        [] node.kind = "copy" ->
             IF src[node.sourcePath].exists
             THEN [same EXCEPT !.fs = RemovePath(fs, node.path)
                     \cup {FileEntry(node.path, src[node.sourcePath].data)}]
             ELSE [same EXCEPT !.exc = "FileNotFoundError"]

\* genTree: `tree.write()`, which is self.root.write().
TreeWrite ==
  /\ pc = "built"
  /\ ~verify
  /\ \E w \in {NodeWrite(1)} :
       /\ fs' = w.fs /\ stack' = w.stack /\ synced' = w.synced
       /\ pc' = "write" /\ exc' = exc
  /\ UNCHANGED <<gen, plan, src, run, verify, rng, nodes, dirNodes, loc, drawLog,
                 stats, vres, hist, tree1, touched, gens,
                 traceFile, traceTuples>>

\* One iteration of `for node in self.children: node.write()`.
WriteNode ==
  /\ pc = "write"
  /\ stack # <<>>
  /\ Head(stack).k <= Len(nodes[Head(stack).node].children)
  /\ \E top \in {Head(stack)} :
     \E w \in {NodeWrite(nodes[top.node].children[top.k])} :
       /\ fs' = w.fs
       /\ synced' = w.synced
       /\ stack' = SubSeq(w.stack, 1, Len(w.stack) - Len(stack))
                     \o <<[top EXCEPT !.k = @ + 1]>> \o Tail(stack)
       /\ IF w.exc = "none" THEN pc' = pc /\ exc' = exc
          ELSE IF w.exc = "loop" THEN pc' = "looping" /\ exc' = exc
          ELSE Raise(w.exc)
  /\ UNCHANGED <<gen, plan, src, run, verify, rng, nodes, dirNodes, loc, drawLog,
                 stats, vres, hist, tree1, touched, gens,
                 traceFile, traceTuples>>

\* DirNode.write after its loop: the directory is fsynced if gen.fsync, and
\* the call returns; when it is the root's, genTree returns the statistics
\* and main the exit status.
WriteReturn ==
  /\ pc = "write"
  /\ stack # <<>>
  /\ Head(stack).k > Len(nodes[Head(stack).node].children)
  /\ synced' = IF gen.fsync THEN Append(synced, nodes[Head(stack).node].path)
                            ELSE synced
  /\ stack' = Tail(stack)
  /\ pc' = IF Tail(stack) = <<>> THEN "done" ELSE pc
  /\ UNCHANGED <<gen, plan, src, fs, run, verify, exc, rng, nodes, dirNodes, loc,
                 drawLog, stats, vres, hist, tree1, touched, gens,
                 traceFile, traceTuples>>

(***************************************************************************)
(* Verifying the tree: RandomDirTree.verify, DirNode.verify,               *)
(* FileNode.verify, CopyNode.verify.  A result is "true", "false", the     *)
(* name of the exception raised, or "loop" when the call never returns.    *)
(***************************************************************************)
\* input.read(n) at offset pos of the open file.
Read(data, pos, n) == SubSeq(data, pos + 1, Min(Len(data), pos + n))

\* FileNode.verifyChunk: the report of a difference formats the chunks with
\* bytes.encode, which bytes does not have.
VerifyChunk(data, pos, expected) ==
  LET actual == Read(data, pos, Len(expected))
  IN  IF actual = expected THEN "true"
      ELSE IF Len(actual) # Len(expected) THEN "false"
      ELSE "AttributeError"

\* FileNode.verifyContents from the generator g and offset pos.
RECURSIVE VerifyContents(_, _, _)
VerifyContents(g, data, pos) ==
  LET n == GeneratorNext(g)
      v == VerifyChunk(data, pos, n.chunk)
  IN  IF n.stop THEN "true"
      ELSE IF v # "true" THEN v
      ELSE VerifyContents(n.g, data, pos + Len(n.chunk))

\* len(os.path.commonprefix((actual, expected)))
RECURSIVE CommonPrefix(_, _)
CommonPrefix(actual, expected) ==
  IF actual = <<>> \/ expected = <<>> \/ Head(actual) # Head(expected) THEN 0
  ELSE 1 + CommonPrefix(Tail(actual), Tail(expected))

\* FileNode.verifyChunk: `offset = input.tell() - len(actual)`, then
\* `offset += len(os.path.commonprefix((actual, expected)))`, after the read
\* of the chunk at pos.
Offset(data, pos, expected) ==
  (pos + Len(Read(data, pos, Len(expected))))
    - Len(Read(data, pos, Len(expected)))
    + CommonPrefix(Read(data, pos, Len(expected)), expected)

\* The offset verifyChunk computes in the first chunk of verifyContents that
\* differs from the file, None when no chunk differs.
RECURSIVE FirstOffset(_, _, _)
FirstOffset(g, data, pos) ==
  LET n == GeneratorNext(g)
  IN  IF n.stop THEN None
      ELSE IF Read(data, pos, Len(n.chunk)) # n.chunk
           THEN Offset(data, pos, n.chunk)
           ELSE FirstOffset(n.g, data, pos + Len(n.chunk))

\* A size check that accepts every size.
AnySize(node) == TRUE

\* FileNode.verifySize
VerifySize(node) == Len(Entry(node.path).data) = node.fileSize

\* FileNode.verify
FileVerify(node) ==
  IF ~(IsFile(node.path) /\ VerifySize(node)) THEN "false"
  ELSE IF Diverges(node.fileSize) THEN "loop"
  ELSE VerifyContents(Generator(node.fileSeed, node.fileSize),
                      Entry(node.path).data, 0)

\* CopyNode.verify
CopyVerify(node) ==
  IF /\ src[node.sourcePath].exists
     /\ IsFile(node.path)
     /\ src[node.sourcePath].data = Entry(node.path).data
  THEN "true" ELSE "false"

\* The call node.verify() of node id: the stack after it and the result so
\* far ("none" while a directory's children are being verified).
NodeVerify(id) ==
  LET node == nodes[id]
  IN  CASE node.kind = "dir" ->
             IF IsDir(node.path)
             THEN [stack |-> <<Frame(id)>> \o stack, res |-> "none"]
             ELSE [stack |-> stack, res |-> "false"]
        [] node.kind = "file" -> [stack |-> stack, res |-> FileVerify(node)]
        [] node.kind = "copy" -> [stack |-> stack, res |-> CopyVerify(node)]

\* all([node.verify() for node in self.children])
All(results, kids) ==
  IF \A j \in 1..Len(kids) : results[kids[j]] = "true" THEN "true" ELSE "false"

\* main: `return 2`, `return int(not stats.verified)`
ExitStatus == IF pc = "refused" THEN 2 ELSE IF stats.verified THEN 0 ELSE 1

\* genTree: `stats.verified = tree.verify()`, `stats.calculate()`, and main's
\* return of the exit status.
Verified(res) ==
  /\ stats' = [stats EXCEPT !.verified = (res = "true")]
  /\ pc' = "done"

\* genTree: `tree.verify()`, which is self.root.verify().
TreeVerify ==
  /\ pc = "built"
  /\ verify
  /\ \E v \in {NodeVerify(1)} :
         /\ stack' = v.stack
         /\ vres' = [i \in 1..Len(nodes) |-> IF i = 1 THEN v.res ELSE "none"]
         /\ IF v.res = "none" THEN pc' = "verify" /\ stats' = stats
                              ELSE Verified(v.res)
  /\ UNCHANGED <<gen, plan, src, fs, run, verify, exc, rng, nodes, dirNodes, loc,
                 drawLog, hist, tree1, touched, gens, synced,
                 traceFile, traceTuples>>

\* One element of the list `[node.verify() for node in self.children]`.
VerifyNode ==
  /\ pc = "verify"
  /\ stack # <<>>
  /\ Head(stack).k <= Len(nodes[Head(stack).node].children)
  /\ \E top \in {Head(stack)} :
     \E child \in {nodes[top.node].children[top.k]} :
     \E v \in {NodeVerify(child)} :
     \E rest \in {<<[top EXCEPT !.k = @ + 1]>> \o Tail(stack)} :
         IF v.res \in {"none", "true", "false"}
         THEN /\ vres' = [vres EXCEPT ![child] = v.res]
              /\ stack' = IF v.res = "none" THEN <<Frame(child)>> \o rest
                                            ELSE rest
              /\ pc' = pc /\ exc' = exc
         ELSE /\ vres' = vres /\ stack' = rest
              /\ IF v.res = "loop" THEN pc' = "looping" /\ exc' = exc
                                   ELSE Raise(v.res)
  /\ UNCHANGED <<gen, plan, src, fs, run, verify, rng, nodes, dirNodes, loc,
                 drawLog, stats, hist, tree1, touched, gens, synced,
                 traceFile, traceTuples>>

\* DirNode.verify returns the conjunction of its children's results.
VerifyReturn ==
  /\ pc = "verify"
  /\ stack # <<>>
  /\ Head(stack).k > Len(nodes[Head(stack).node].children)
  /\ \E id \in {Head(stack).node} :
     \E res \in {All(vres, nodes[id].children)} :
         /\ vres' = [vres EXCEPT ![id] = res]
         /\ stack' = Tail(stack)
         /\ IF Tail(stack) = <<>> THEN Verified(res)
                                  ELSE pc' = pc /\ stats' = stats
  /\ UNCHANGED <<gen, plan, src, fs, run, verify, exc, rng, nodes, dirNodes, loc,
                 drawLog, hist, tree1, touched, gens, synced,
                 traceFile, traceTuples>>

(***************************************************************************)
(* The world outside the program: between two invocations somebody may     *)
(* change the tree on the filesystem or the source files.                  *)
(***************************************************************************)
IsPrefix(p, q) == Len(p) <= Len(q) /\ SubSeq(q, 1, Len(p)) = p

Between ==
  /\ pc \in {"done", "aborted", "refused"}
  /\ run >= 1
  /\ run < Len(plan)
  /\ touched < MaxTouched
  /\ touched' = touched + 1

\* rm -r of a path of the tree (the root directory included).
Unlink ==
  /\ Between
  /\ \E e \in fs : fs' = {x \in fs : ~IsPrefix(e.path, x.path)}
  /\ UNCHANGED <<gen, plan, src, run, verify, pc, exc, rng, nodes, dirNodes, loc,
                 drawLog, stats, stack, vres, hist, tree1, gens, synced,
                 traceFile, traceTuples>>

\* One byte of a file changes; its size does not.
Corrupt ==
  /\ Between
  /\ \E e \in fs : \E i \in 1..Len(e.data) :
       fs' = (fs \ {e}) \cup {[e EXCEPT !.data[i] = (@ + 1) % 256]}
  /\ UNCHANGED <<gen, plan, src, run, verify, pc, exc, rng, nodes, dirNodes, loc,
                 drawLog, stats, stack, vres, hist, tree1, gens, synced,
                 traceFile, traceTuples>>

\* A file loses its last byte or gains one.
Resize ==
  /\ Between
  /\ \E e \in fs : \E d \in {SubSeq(e.data, 1, Len(e.data) - 1),
                             Append(e.data, 0)} :
       /\ e.kind = "file"
       /\ d # e.data
       /\ fs' = (fs \ {e}) \cup {[e EXCEPT !.data = d]}
  /\ UNCHANGED <<gen, plan, src, run, verify, pc, exc, rng, nodes, dirNodes, loc,
                 drawLog, stats, stack, vres, hist, tree1, gens, synced,
                 traceFile, traceTuples>>

\* A source file is rewritten or removed.
SourceChange ==
  /\ Between
  /\ \E n \in DOMAIN src :
       /\ src[n].exists
       /\ \/ src' = [src EXCEPT ![n].data = Append(@, 1)]
          \/ src' = [src EXCEPT ![n].exists = FALSE]
  /\ UNCHANGED <<gen, plan, fs, run, verify, pc, exc, rng, nodes, dirNodes, loc,
                 drawLog, stats, stack, vres, hist, tree1, gens, synced,
                 traceFile, traceTuples>>

(***************************************************************************)
(* processTrace.py: TraceFile keeps two indexes of the sectors a block     *)
(* trace mentions, __sectorToHash (sector -> hash and "single" flag) and   *)
(* __hashToSectors (hash -> list of sectors), and a list of mismatches.    *)
(* A dict is a function whose domain is the set of its keys.               *)
(***************************************************************************)
MaxSector == 1       \* sectors 0..MaxSector
MaxTuples == 4       \* trace tuples processed

Sectors == 0..MaxSector
Hashes == {"a", "b"}
NoHash == ""         \* hash is None: a discard carries no hash

discardOp == "D"
readOp == "R"
writeOp == "W"

\* The tuples (operation, sector, hash) that process() accumulates: the
\* sector is the text of the trace line, reads and writes carry a hash.
TraceTuples ==
  {<<op, ToString(s), h>> :
     op \in {readOp, writeOp}, s \in Sectors, h \in Hashes}
  \cup {<<discardOp, ToString(s), NoHash>> : s \in Sectors}

\* int(sector)
int(text) == CHOOSE s \in Sectors : ToString(s) = text

\* TraceFile.__init__
TraceFile(arguments) ==
  [arguments |-> arguments,
   sectorToHash |-> <<>>, hashToSectors |-> <<>>, mismatches |-> <<>>]

\* Mismatch.__init__
Mismatch(sector, expectedHash, actualHash, withExpected, withActual) ==
  [sector |-> sector, expectedHash |-> expectedHash,
   actualHash |-> actualHash, sectorsWithExpected |-> withExpected,
   sectorsWithActual |-> withActual]

\* x in list
Contains(list, x) == \E k \in 1..Len(list) : list[k] = x

\* list.remove(x) for a list that contains x: the first x goes.
Remove(list, x) ==
  LET i == CHOOSE k \in 1..Len(list) :
             list[k] = x /\ \A m \in 1..(k - 1) : list[m] # x
  IN  SubSeq(list, 1, i - 1) \o SubSeq(list, i + 1, Len(list))

\* sorted(list) for a list of sectors
RECURSIVE Sorted(_)
Sorted(list) ==
  IF list = <<>> THEN <<>>
  ELSE LET least == CHOOSE x \in {list[k] : k \in 1..Len(list)} :
                      \A k \in 1..Len(list) : x <= list[k]
       IN  <<least>> \o Sorted(Remove(list, least))

\* TraceFile._sectorHash, for a tracked sector
SectorHash(tf, sector) == tf.sectorToHash[sector].hash

\* The outcome of a method: the object after it and the exception it
\* raised, "none" if it returned.
Returned(tf) == [traceFile |-> tf, exc |-> "none"]
Raised(tf, e) == [traceFile |-> tf, exc |-> e]

\* A _discardSectorInfo that forgets the sector in the sector-to-hash map
\* only.
DiscardSectorOnly(tf, sector) ==
  IF sector \notin DOMAIN tf.sectorToHash THEN Returned(tf)
  ELSE Returned([tf EXCEPT !.sectorToHash =
                   [s \in DOMAIN tf.sectorToHash \ {sector} |->
                      tf.sectorToHash[s]]])

\* TraceFile._discardSectorInfo: KeyError from _sectorHash is passed over;
\* otherwise the sector leaves both maps.
DiscardSectorInfo(tf, sector) ==
  IF sector \notin DOMAIN tf.sectorToHash THEN Returned(tf)
  ELSE LET hash == SectorHash(tf, sector)
           deleted == [tf EXCEPT !.sectorToHash =
                         [s \in DOMAIN tf.sectorToHash \ {sector} |->
                            tf.sectorToHash[s]]]
       IN  IF hash \notin DOMAIN tf.hashToSectors
           THEN Raised(deleted, "KeyError")
           ELSE IF ~Contains(tf.hashToSectors[hash], sector)
                THEN Raised(deleted, "ValueError")
                ELSE Returned([deleted EXCEPT !.hashToSectors[hash] =
                                 Remove(@, sector)])

\* TraceFile._addSectorInfo: the sector leaves the list of its tracked hash
\* (KeyError passed over), then is recorded with the new hash in both maps.
AddSectorInfo(tf, sector, hash) ==
  LET tracked == /\ sector \in DOMAIN tf.sectorToHash
                 /\ SectorHash(tf, sector) \in DOMAIN tf.hashToSectors
      removed == IF tracked
                 THEN [tf EXCEPT !.hashToSectors[SectorHash(tf, sector)] =
                         Remove(@, sector)]
                 ELSE tf
      listed  == IF hash \in DOMAIN removed.hashToSectors
                 THEN removed.hashToSectors[hash] ELSE <<>>
  IN  IF tracked /\ ~Contains(tf.hashToSectors[SectorHash(tf, sector)], sector)
      THEN Raised(tf, "ValueError")
      ELSE Returned(
             [removed EXCEPT
                !.sectorToHash = (sector :> [hash |-> hash, single |-> TRUE])
                                   @@ @,
                !.hashToSectors = (hash :> Append(listed, sector)) @@ @])

\* TraceFile._processMismatch, for a tracked sector
ProcessMismatch(tf, sector, hash) ==
  LET foundSectors == IF hash \in DOMAIN tf.hashToSectors
                      THEN tf.hashToSectors[hash] ELSE <<>>
  IN  IF SectorHash(tf, sector) \notin DOMAIN tf.hashToSectors
      THEN Raised(tf, "KeyError")
      ELSE Returned(
             [tf EXCEPT !.mismatches =
                Append(@, Mismatch(sector, SectorHash(tf, sector), hash,
                                   Sorted(tf.hashToSectors[
                                            SectorHash(tf, sector)]),
                                   Sorted(foundSectors)))])

\* The locals of _processTraceTuples: result, where the loop is ("loop",
\* "break", or the exception that ended it) and, as history, the number of
\* tuples processed and the last of them.
NoTuples == [result |-> 0, state |-> "loop", n |-> 0, last |-> <<>>]

\* No trace is being processed.
NoTrace ==
  /\ traceFile = TraceFile([quiet |-> FALSE, singles |-> FALSE])
  /\ traceTuples = NoTuples

Iterating == traceTuples.state = "loop" /\ traceTuples.n < MaxTuples

\* The loop after the body has processed tuple t with outcome r.
Iterated(t, r, result, state) ==
  /\ traceFile' = r.traceFile
  /\ traceTuples' = [result |-> result,
                     state |-> IF r.exc = "none" THEN state ELSE r.exc,
                     n |-> traceTuples.n + 1, last |-> t]

\* _processTraceTuples, `if op == self._discardOp`
DiscardTuple ==
  /\ Iterating
  /\ \E t \in TraceTuples :
       /\ t[1] = discardOp
       /\ \E r \in {DiscardSectorInfo(traceFile, int(t[2]))} :
            Iterated(t, r, traceTuples.result, "loop")
  /\ UNCHANGED <<gen, plan, src, fs, run, verify, pc, exc, rng, nodes, dirNodes,
                 loc, drawLog, stats, stack, vres, hist, tree1, touched, gens,
                 synced>>

\* _processTraceTuples, `elif (op == self._writeOp) or (sector not in
\* self.__sectorToHash)`
AddTuple ==
  /\ Iterating
  /\ \E t \in TraceTuples :
       /\ t[1] # discardOp
       /\ t[1] = writeOp \/ int(t[2]) \notin DOMAIN traceFile.sectorToHash
       /\ \E r \in {AddSectorInfo(traceFile, int(t[2]), t[3])} :
            Iterated(t, r, traceTuples.result, "loop")
  /\ UNCHANGED <<gen, plan, src, fs, run, verify, pc, exc, rng, nodes, dirNodes,
                 loc, drawLog, stats, stack, vres, hist, tree1, touched, gens,
                 synced>>

\* _processTraceTuples, `elif op == self._readOp`: the sector is no single;
\* a hash other than the tracked one is a mismatch, which sets the result
\* and, with --quiet and without --singles, ends the loop.
ReadTuple ==
  /\ Iterating
  /\ \E t \in TraceTuples :
       /\ t[1] = readOp
       /\ int(t[2]) \in DOMAIN traceFile.sectorToHash
       /\ \E seen \in {[traceFile EXCEPT
                          !.sectorToHash[int(t[2])].single = FALSE]} :
            IF t[3] # SectorHash(seen, int(t[2]))
            THEN \E r \in {ProcessMismatch(seen, int(t[2]), t[3])} :
                   Iterated(t, r,
                            IF ~seen.arguments.singles THEN 0 - 1 ELSE 0,
                            IF seen.arguments.quiet /\ ~seen.arguments.singles
                            THEN "break" ELSE "loop")
            ELSE Iterated(t, Returned(seen), traceTuples.result, "loop")
  /\ UNCHANGED <<gen, plan, src, fs, run, verify, pc, exc, rng, nodes, dirNodes,
                 loc, drawLog, stats, stack, vres, hist, tree1, touched, gens,
                 synced>>

(***************************************************************************)
(* Configurations (initConfig and the -D settings) and initial states.     *)
(***************************************************************************)
CategoryConfig(r, n, a, l) ==
  [min |-> r[1], max |-> r[2], num |-> n, numCoalescent |-> a, coalescent |-> l]

Unused(c) == c.num = 0 /\ c.numCoalescent = 0 /\ c.coalescent = 0

Rejected(c) == c.numCoalescent > c.num \/ c.coalescent > c.num

RECURSIVE SumNum(_)
SumNum(cs) == IF cs = <<>> THEN 0 ELSE Head(cs).num + SumNum(Tail(cs))

\* The settings of one category creating at most b files: any two
\* coalescence counts the check accepts, or one count that exceeds num by one.
CategoryConfigs(b, r) ==
  {CategoryConfig(r, x[1], x[2], x[3]) :
     x \in {y \in (0..b) \X (0..(b + 1)) \X (0..(b + 1)) :
              \/ y[2] <= y[1] /\ y[3] <= y[1]
              \/ y[2] = y[1] + 1 /\ y[3] = 0
              \/ y[2] = 0 /\ y[3] = y[1] + 1}}

\* The settings of k size categories creating at most b files, with size
\* range r, at most `used` of them differing from the defaults.  The
\* categories after one that _createFileNodes rejects are never read: they
\* keep the defaults.
RECURSIVE CategorySettings(_, _, _, _)
CategorySettings(k, b, r, used) ==
  IF k = 0 THEN {<<>>}
  ELSE UNION {
         IF Rejected(c)
         THEN {<<c>> \o [j \in 1..(k - 1) |-> CategoryConfig(r, 0, 0, 0)]}
         ELSE {<<c>> \o rest :
                 rest \in CategorySettings(k - 1, b - c.num, r,
                                           IF Unused(c) THEN used ELSE used - 1)}
         : c \in {x \in CategoryConfigs(b, r) : used > 0 \/ Unused(x)}}

\* gen after initConfig and the settings of the command line.
Config(seed, dirs, depth, cs, copies, compress, prefix, trunc, readable, fsync) ==
  [randseed |-> seed,
   huge |-> cs[1], large |-> cs[2], medium |-> cs[3], small |-> cs[4],
   copied |-> [num |-> copies],
   dirs |-> [num |-> dirs, maxDepth |-> depth],
   compressible |-> [percentage |-> compress[1], blockSize |-> compress[2]],
   readable_filenames |-> readable,
   truncate |-> trunc,
   fsync |-> fsync,
   name_prefix |-> prefix]

\* The options of the invocations: options.verify as given, the same
\* options.seed in each.
Invocations(flags, seed) ==
  [k \in 1..Len(flags) |-> [verify |-> flags[k], seed |-> seed]]

\* The first k source files exist.
SourceDir(k) ==
  [n \in {SrcNames[j] : j \in 1..Len(SrcNames)} |->
     [exists |-> \E j \in 1..k : SrcNames[j] = n,
      data   |-> IF n = SrcNames[1] THEN <<7>> ELSE <<7, 9>>]]

InitRest ==
  /\ run = 0 /\ verify = FALSE /\ pc = "idle" /\ exc = "none"
  /\ rng = 0 /\ nodes = <<>> /\ dirNodes = <<>> /\ loc = NoLoc
  /\ drawLog = <<>> /\ stats = GenerateStats /\ stack = <<>> /\ vres = <<>>
  /\ hist = <<>> /\ tree1 = <<>> /\ touched = 0 /\ gens = <<>>
  /\ synced = <<>>
  /\ NoTrace

\* The configurations with at most b nodes below root.  Settings that are
\* never read keep one value: maxDepth without directories, the size range
\* without files, the source directory without copies; a negative maxDepth
\* and a rejected category end the construction before anything after them
\* (fsync included) is read.
InitConfig(b, used, ranges, compresses, options) ==
  \E d \in 0..Min(b, MaxDirs), depth \in (0 - 1)..MaxDirs,
     r \in ranges, compress \in compresses, o \in options :
    \E cs \in CategorySettings(Len(CategoryNames), b - d, r, used) :
      \E cp \in 0..(b - d - SumNum(cs)), k \in 0..Len(SrcNames) :
        LET rejected == \E j \in 1..Len(cs) : Rejected(cs[j])
            Least(S) == CHOOSE x \in S : \A y \in S : x[1] + x[2] <= y[1] + y[2]
        IN  /\ depth < 0 => d = 0 /\ cp = 0 /\ \A j \in 1..Len(cs) : Unused(cs[j])
            /\ d = 0 => depth <= 0
            /\ SumNum(cs) = 0 => r = Least(ranges) /\ compress = Least(compresses)
            /\ SumNum(cs) = 0 => ~o[2]
            /\ d + SumNum(cs) + cp = 0 => o[1] = ""
            /\ cp = 0 => k = 0
            /\ rejected => cp = 0
            /\ (depth < 0 \/ rejected) => ~o[4]
            /\ gen = Config(NoSeed, d, depth, cs, cp, compress, o[1], o[2], o[3],
                            o[4])
            /\ src = SourceDir(k)

\* Tree construction: generation, then verification of the untouched tree,
\* for every shape of tree within the bounds.
InitTree ==
  /\ InitConfig(MaxNodes, 2, {<<0, MaxSize>>, <<MaxSize, MaxSize + 1>>},
                {<<0, 4 * KB>>},
                {<<"", FALSE, TRUE, FALSE>>, <<"", FALSE, TRUE, TRUE>>})
  /\ \E seed \in RandSeeds : plan = Invocations(<<FALSE, TRUE>>, seed)
  /\ fs = {}
  /\ InitRest

NextTree ==
  \/ StartRun
  \/ Construct
  \/ AttachDir
  \/ PopRoot
  \/ EnterCategory
  \/ CreateFileNodes
  \/ EnterCopyNodes
  \/ CreateCopyNode
  \/ NameAndMeasure
  \/ TreeWrite
  \/ WriteNode
  \/ WriteReturn
  \/ TreeVerify
  \/ VerifyNode
  \/ VerifyReturn

SpecTree == InitTree /\ [][NextTree]_vars

\* Generation and verification in any order of invocations, with or without
\* a seed on the command line, with every content setting, on a filesystem
\* that changes between the invocations.
Plans == {<<FALSE, TRUE>>, <<FALSE, FALSE>>, <<TRUE>>}

InitPipeline ==
  /\ InitConfig(MaxNodes - 1, 1, {<<0, MaxSize + 1>>},
                {<<0, 4 * KB>>, <<50, 1>>, <<100, 2>>, <<50, 0>>},
                {<<"", FALSE, TRUE, FALSE>>, <<"f", FALSE, TRUE, FALSE>>,
                 <<"", TRUE, TRUE, FALSE>>, <<"", FALSE, FALSE, FALSE>>})
  /\ \E flags \in Plans, seed \in RandSeeds \cup {NoSeed} :
       plan = Invocations(flags, seed)
  /\ fs = {}
  /\ InitRest

Next ==
  \/ NextTree
  \/ Unlink
  \/ Corrupt
  \/ Resize
  \/ SourceChange

Spec == InitPipeline /\ [][Next]_vars

(***************************************************************************)
(* Chunk generators on their own: generator objects of files of any seed   *)
(* and size are created and advanced one next() at a time, in any          *)
(* interleaving with each other and with draws from the master stream.     *)
(* An element of gens is [g, chunks, fills]: the generator and, as         *)
(* history, the chunks it has yielded and the compressSize of each.        *)
(***************************************************************************)
Generators == {1, 2}
FileSeeds == {View(k, SeedBytes) : k \in 0..MaxSeed}
FileSizes == ChunkSizes
BlockSizes == {0, 1, 2, 50}

\* node.generateChunks() of a file node with any seed and size.
GenerateChunks ==
  /\ Len(gens) + 1 \in Generators
  /\ \E fileSeed \in FileSeeds, fileSize \in FileSizes :
       gens' = Append(gens, [g |-> Generator(fileSeed, fileSize),
                             chunks |-> <<>>, fills |-> <<>>])
  /\ UNCHANGED <<gen, plan, src, fs, run, verify, pc, exc, rng, nodes, dirNodes,
                 loc, drawLog, stats, stack, vres, hist, tree1, touched,
                 synced, traceFile, traceTuples>>

\* next() on one of the generators.
NextChunk ==
  /\ \E i \in 1..Len(gens) :
       /\ gens[i].g.state # "done"
       /\ Len(gens[i].chunks) < MaxChunks
       /\ \E n \in {GeneratorNext(gens[i].g)} :
            gens' = [gens EXCEPT ![i] =
                       IF n.stop THEN [@ EXCEPT !.g = n.g]
                       ELSE [g |-> n.g, chunks |-> Append(@.chunks, n.chunk),
                             fills |-> Append(@.fills, n.fill)]]
  /\ UNCHANGED <<gen, plan, src, fs, run, verify, pc, exc, rng, nodes, dirNodes,
                 loc, drawLog, stats, stack, vres, hist, tree1, touched,
                 synced, traceFile, traceTuples>>

\* A draw from the master stream (tree construction going on).
MasterDraw ==
  /\ Len(drawLog) < MaxDraws
  /\ rng' = Randint(rng, 256).rng
  /\ drawLog' = Append(drawLog, "draw")
  /\ UNCHANGED <<gen, plan, src, fs, run, verify, pc, exc, nodes, dirNodes, loc,
                 stats, stack, vres, hist, tree1, touched, gens, synced,
                 traceFile, traceTuples>>

InitChunks ==
  /\ \E seed \in 0..MaxSeed, percentage \in Percentages, blockSize \in BlockSizes :
       /\ gen = Config(seed, 0, 0,
                       [j \in 1..Len(CategoryNames) |->
                          CategoryConfig(<<0, 0>>, 0, 0, 0)],
                       0, <<percentage, blockSize>>, "", FALSE, TRUE, FALSE)
       /\ rng = RandomState(View(seed, SeedBytes))
  /\ src = SourceDir(0)
  /\ plan = <<>>
  /\ fs = {}
  /\ run = 0 /\ verify = FALSE /\ pc = "idle" /\ exc = "none"
  /\ nodes = <<>> /\ dirNodes = <<>> /\ loc = NoLoc
  /\ drawLog = <<>> /\ stats = GenerateStats /\ stack = <<>> /\ vres = <<>>
  /\ hist = <<>> /\ tree1 = <<>> /\ touched = 0 /\ gens = <<>>
  /\ synced = <<>>
  /\ NoTrace

NextChunks ==
  \/ GenerateChunks
  \/ NextChunk
  \/ MasterDraw

SpecChunks == InitChunks /\ [][NextChunks]_vars

(***************************************************************************)
(* processTrace on its own: a TraceFile object, with any of the arguments  *)
(* --quiet and --singles, processes any sequence of trace tuples.          *)
(***************************************************************************)
InitTrace ==
  /\ \E quiet \in BOOLEAN, singles \in BOOLEAN :
       traceFile = TraceFile([quiet |-> quiet, singles |-> singles])
  /\ traceTuples = NoTuples
  /\ gen = Config(NoSeed, 0, 0,
                  [j \in 1..Len(CategoryNames) |->
                     CategoryConfig(<<0, 0>>, 0, 0, 0)],
                  0, <<0, 4 * KB>>, "", FALSE, TRUE, FALSE)
  /\ src = SourceDir(0)
  /\ plan = <<>>
  /\ fs = {}
  /\ run = 0 /\ verify = FALSE /\ pc = "idle" /\ exc = "none"
  /\ rng = 0 /\ nodes = <<>> /\ dirNodes = <<>> /\ loc = NoLoc
  /\ drawLog = <<>> /\ stats = GenerateStats /\ stack = <<>> /\ vres = <<>>
  /\ hist = <<>> /\ tree1 = <<>> /\ touched = 0 /\ gens = <<>>
  /\ synced = <<>>

NextTrace ==
  \/ DiscardTuple
  \/ AddTuple
  \/ ReadTuple

SpecTrace == InitTrace /\ [][NextTrace]_vars

(***************************************************************************)
(* Properties.                                                             *)
(***************************************************************************)
NodeIds == 1..Len(nodes)

\* The invocation is the verification that follows a generation which ran to
\* its end, and nothing was changed in between.
UntouchedVerify ==
  /\ run = 2 /\ verify /\ touched = 0
  /\ Len(hist) = 1 /\ ~hist[1].verify /\ hist[1].pc = "done"
  /\ hist[1].seed = gen.randseed

\* C1: verification with the same seed and configuration of the untouched
\* tree that a completed generation wrote into an empty root succeeds: it
\* raises nothing, stats.verified is true and the exit status is 0.
C1_RoundTrip ==
  UntouchedVerify =>
    /\ pc \notin {"aborted", "looping"}
    /\ pc = "done" => stats.verified /\ ExitStatus = 0

C1_Witness ==
  /\ UntouchedVerify /\ pc = "done" /\ stats.verified
  /\ \E i, j \in NodeIds :
       /\ nodes[i].kind = "file" /\ nodes[i].fileSize > 1
       /\ nodes[j].kind = "dir" /\ nodes[i].parent = j /\ j # 1

\* C2: a second invocation with the same seed and configuration (and the
\* same source files) builds the tree the first one built: the same nodes
\* with the same paths, kinds, seeds, sizes and source files, hence the same
\* contents.
C2_Determinism ==
  (/\ run = 2 /\ touched = 0 /\ pc \in {"built", "write", "verify", "done"}
   /\ hist[1].seed = gen.randseed) =>
    /\ nodes = tree1
    /\ \A i \in NodeIds :
         (nodes[i].kind = "file" /\ ~Diverges(nodes[i].fileSize))
           => Contents(nodes[i]) = Contents(tree1[i])

C2_Witness ==
  /\ run = 2 /\ touched = 0 /\ ~verify /\ pc = "built" /\ nodes = tree1
  /\ \E i, j \in NodeIds :
       /\ nodes[i].kind = "file" /\ nodes[i].fileSize > 0
       /\ nodes[j].kind = "copy"

\* What verification is to establish for node i.
NodeOk(i) ==
  CASE nodes[i].kind = "dir"  -> IsDir(nodes[i].path)
    [] nodes[i].kind = "file" ->
         /\ IsFile(nodes[i].path)
         /\ Len(Entry(nodes[i].path).data) = nodes[i].fileSize
         /\ ~Diverges(nodes[i].fileSize)
         /\ Entry(nodes[i].path).data = Contents(nodes[i])
    [] nodes[i].kind = "copy" ->
         /\ IsFile(nodes[i].path)
         /\ src[nodes[i].sourcePath].exists
         /\ Entry(nodes[i].path).data = src[nodes[i].sourcePath].data

\* C3: verification returns true only if every directory exists, every
\* generated file is a regular file with the size and the bytes of its
\* node, and every copy is a regular file equal to its source; a directory
\* that exists returns the conjunction of its children's results.
C3_VerifySound ==
  /\ (verify /\ pc = "done" /\ stats.verified) => \A i \in NodeIds : NodeOk(i)
  /\ (verify /\ pc \in {"verify", "done"}) =>
       \A i \in NodeIds :
         (nodes[i].kind = "dir" /\ vres[i] # "none") =>
           (vres[i] = "true" <=>
              /\ IsDir(nodes[i].path)
              /\ \A k \in 1..Len(nodes[i].children) :
                   vres[nodes[i].children[k]] = "true")

C3_Witness ==
  /\ verify /\ pc = "done" /\ ~stats.verified /\ touched > 0
  /\ \E i, j \in NodeIds :
       /\ nodes[i].kind = "dir" /\ i # 1 /\ vres[i] = "false"
       /\ nodes[j].parent = i /\ nodes[j].kind = "file" /\ vres[j] = "false"
       /\ IsFile(nodes[j].path)

\* C4: a mismatch found by verification never aborts it: once the traversal
\* has started, the invocation raises no exception.
C4_MismatchNeverAborts == (verify /\ vres # <<>>) => pc # "aborted"

\* C5: with dirs.maxDepth >= 0, no directory node is deeper than
\* dirs.maxDepth.
C5_DepthBound ==
  gen.dirs.maxDepth >= 0 =>
    \A i \in NodeIds : nodes[i].kind = "dir" => nodes[i].depth <= gen.dirs.maxDepth


\* The bytes generator entry e has yielded in its first k chunks.
RECURSIVE Yielded(_, _)
Yielded(e, k) == IF k = 0 THEN 0 ELSE Len(e.chunks[k]) + Yielded(e, k - 1)

\* The effective chunk size of the configuration.
EffectiveChunkSize ==
  IF gen.compressible.percentage > 0 THEN gen.compressible.blockSize
                                     ELSE MAX_CHUNK_SIZE

\* The bytes a generator has still to yield.
Remaining(g) == IF g.state = "created" THEN g.fileSize ELSE g.remaining

GeneratorIds == 1..Len(gens)

\* C6: every chunk has length min(bytes remaining, effective chunk size); a
\* file of size 0 yields no chunk; the chunks sum to fileSize: a generator
\* that has stopped has yielded fileSize bytes, and so has one that has
\* yielded fileSize chunks.
C6_ChunkLengths ==
  \A i \in GeneratorIds :
    /\ \A k \in 1..Len(gens[i].chunks) :
         Len(gens[i].chunks[k]) =
           Min(gens[i].g.fileSize - Yielded(gens[i], k - 1), EffectiveChunkSize)
    /\ gens[i].g.fileSize = 0 => gens[i].chunks = <<>>
    /\ (gens[i].g.state = "done" \/ Len(gens[i].chunks) >= gens[i].g.fileSize)
         => Yielded(gens[i], Len(gens[i].chunks)) = gens[i].g.fileSize

\* C7: the chunk sequence is finite: every next() that yields a chunk leaves
\* fewer bytes to yield than there were.
C7_Terminates ==
  [][\A i \in GeneratorIds :
       Len(gens'[i].chunks) > Len(gens[i].chunks)
         => Remaining(gens'[i].g) < Remaining(gens[i].g)]_vars

\* C8: a chunk of length C starts with floor(C * percentage / 100) fill bytes
\* 0xFF; the other bytes come from the file's own stream.
C8_FillCount ==
  \A i \in GeneratorIds : \A k \in 1..Len(gens[i].chunks) :
    /\ gens[i].fills[k] =
         (Len(gens[i].chunks[k]) * gen.compressible.percentage) \div 100
    /\ \A b \in 1..gens[i].fills[k] : gens[i].chunks[k][b] = 255

\* C9: generators of the same fileSeed and fileSize yield the same chunks,
\* whatever is drawn from the master stream or by other generators in
\* between, and a next() leaves the master stream where it was.
C9_Restartable ==
  /\ [](\A i, j \in GeneratorIds :
          (gens[i].g.fileSeed = gens[j].g.fileSeed
             /\ gens[i].g.fileSize = gens[j].g.fileSize) =>
            \A k \in 1..Min(Len(gens[i].chunks), Len(gens[j].chunks)) :
              gens[i].chunks[k] = gens[j].chunks[k])
  /\ [][Len(gens') = Len(gens) /\ gens' # gens => rng' = rng]_vars

C9_Witness ==
  /\ Len(gens) = 2 /\ drawLog # <<>>
  /\ gens[1].g.fileSeed = gens[2].g.fileSeed
  /\ gens[1].g.fileSize = gens[2].g.fileSize
  /\ Len(gens[1].chunks) = 2 /\ gens[1].chunks = gens[2].chunks
  /\ gens[1].fills[1] < Len(gens[1].chunks[1])

\* The named nodes other than i.
Named(i) == {j \in NodeIds \ {i} : nodes[j].path # None}

\* The number of draws of one kind from the master stream.
Draws(kind) == Cardinality({k \in 1..Len(drawLog) : drawLog[k] = kind})

\* C10: a clone has the fileSeed and fileSize of its base file, which is a
\* file drawn on its own; every node, clones included, is attached by a draw
\* of its own, and only base files draw a seed; once named, a clone's path
\* differs from the path of its base and of every other node.
C10_Clones ==
  /\ \A i \in NodeIds :
       nodes[i].cloneOf # 0 =>
         /\ nodes[i].cloneOf \in NodeIds \ {i}
         /\ nodes[nodes[i].cloneOf].kind = "file"
         /\ nodes[nodes[i].cloneOf].cloneOf = 0
         /\ nodes[i].kind = "file"
         /\ nodes[i].fileSeed = nodes[nodes[i].cloneOf].fileSeed
         /\ nodes[i].fileSize = nodes[nodes[i].cloneOf].fileSize
         /\ nodes[i].path # None =>
              \A j \in Named(i) : nodes[j].path # nodes[i].path
  /\ nodes # <<>> =>
       /\ Draws("attach") = Len(nodes) - 1
       /\ Draws("seed") =
            Cardinality({i \in NodeIds : nodes[i].kind = "file"
                                          /\ nodes[i].cloneOf = 0})

C10_Witness ==
  /\ pc = "built"
  /\ \E i \in NodeIds :
       /\ nodes[i].cloneOf # 0
       /\ nodes[i].parent # 1
       /\ nodes[i].fileSize > 0
       /\ nodes[i].path # nodes[nodes[i].cloneOf].path

\* The file nodes that category k (an index of CategoryNames) created, its
\* clones among them, and whether _createFileNodes has returned for it.
Files(k) ==
  {i \in NodeIds : nodes[i].kind = "file"
                   /\ nodes[i].category = CategoryNames[k]}

Clones(k) == {i \in Files(k) : nodes[i].cloneOf # 0}

Completed(k) == nodes # <<>> /\ loc.cat > k

Categories == 1..Len(CategoryNames)

\* C11: a category with legacy counter 0 and 0 <= numCoalescent <= num gets
\* num file nodes, exactly numCoalescent of them clones of the other
\* num - numCoalescent files, which are base files.
C11_NumCoalescent ==
  \A k \in Categories :
    (/\ Completed(k)
     /\ gen[CategoryNames[k]].coalescent = 0
     /\ gen[CategoryNames[k]].numCoalescent <= gen[CategoryNames[k]].num) =>
      /\ Cardinality(Files(k)) = gen[CategoryNames[k]].num
      /\ Cardinality(Clones(k)) = gen[CategoryNames[k]].numCoalescent
      /\ \A i \in Clones(k) : nodes[i].cloneOf \in Files(k) \ Clones(k)

\* The steps of RandomDirTree.__init__.
Constructing == {"construct", "dirs", "category", "files", "copies", "name"}

NoSourceFiles == gen.copied.num > 0 /\ FileList = <<>>

\* The invocation ended with the Error of _createCopyNodes.
CopyError ==
  /\ pc = "aborted" /\ exc = "Error"
  /\ loc.cat > Len(CategoryNames)
  /\ gen.copied.num > 0 /\ loc.fileList = <<>>

\* C12: with copied.num > 0 and no regular file under copied.sourceDir, the
\* invocation that reaches _createCopyNodes ends there with Error and never
\* gets to name, write or verify a node; no step of the construction changes
\* the destination (genTree has made the root directory before the tree is
\* constructed), and nothing has been verified when the run ends.
C12_NoSourceFiles ==
  /\ [](NoSourceFiles =>
          pc \notin {"copies", "name", "built", "write", "verify", "looping"})
  /\ [](CopyError =>
          /\ stack = <<>> /\ vres = <<>> /\ stats = GenerateStats
          /\ \A i \in NodeIds \ {1} : nodes[i].path = None)
  /\ [][(pc = "category" /\ loc.cat > Len(CategoryNames) /\ NoSourceFiles) =>
          (pc' = "aborted" /\ exc' = "Error" /\ fs' = fs)]_vars
  /\ [][(pc \in Constructing) => (fs' = fs)]_vars

C12_Witness ==
  /\ CopyError /\ verify /\ run = 2
  /\ hist[1].pc = "done"
  /\ Len(nodes) > 1
  /\ \E e \in fs : e.kind = "file"

\* C13: with dirs.maxDepth < 0 the construction ends in RandomDirTree.__init__
\* with the program's Error, before any node other than the root object
\* exists and before any draw from the master stream.
C13_NegativeMaxDepth ==
  (gen.dirs.maxDepth < 0 /\ pc \notin {"idle", "refused", "construct"}) =>
    /\ pc = "aborted" /\ exc = "Error"
    /\ Len(nodes) = 1 /\ drawLog = <<>>

\* The first category whose counters _createFileNodes rejects, 0 if none.
FirstRejected ==
  IF \E k \in Categories : Rejected(gen[CategoryNames[k]])
  THEN CHOOSE k \in Categories :
         /\ Rejected(gen[CategoryNames[k]])
         /\ \A j \in 1..(k - 1) : ~Rejected(gen[CategoryNames[j]])
  ELSE 0

\* C14: when numCoalescent or the legacy counter of a category exceeds its
\* num, the invocation ends at the entry of _createFileNodes for that category
\* with Error: no file node of that category (or of a later one, or a copy)
\* exists, and no node was named, written or verified.
C14_CoalescentExceedsNum ==
  (FirstRejected # 0 /\ gen.dirs.maxDepth >= 0) =>
    /\ pc \notin {"copies", "name", "built", "write", "verify", "done",
                  "looping"}
    /\ \A k \in FirstRejected..Len(CategoryNames) : Files(k) = {}
    /\ \A i \in NodeIds : nodes[i].kind # "copy"
    /\ pc = "aborted" =>
         /\ exc = "Error"
         /\ loc.numCoal > loc.numFiles \/ loc.numCoalLegacy > loc.numFiles
         /\ stack = <<>> /\ vres = <<>> /\ stats = GenerateStats
         /\ fs \subseteq {DirEntry(RootDir)}
         /\ \A i \in NodeIds \ {1} : nodes[i].path = None

C14_Witness ==
  /\ pc = "aborted" /\ exc = "Error"
  /\ FirstRejected > 1
  /\ gen[CategoryNames[FirstRejected]].num > 0
  /\ \E i \in NodeIds : nodes[i].kind = "file"

\* The nodes below node id in depth-first pre-order over the stored child
\* order, node id first.
RECURSIVE PreOrder(_), PreOrderAll(_, _)
PreOrder(id) ==
  <<id>> \o (IF nodes[id].kind = "dir"
             THEN PreOrderAll(nodes[id].children, 1) ELSE <<>>)
PreOrderAll(kids, k) ==
  IF k > Len(kids) THEN <<>>
  ELSE PreOrder(kids[k]) \o PreOrderAll(kids, k + 1)

NamesAssigned == pc \in {"built", "write", "verify", "done", "looping"}

\* C15: after naming, the k-th non-root node in pre-order (k from 0) has the
\* name name_prefix + k and the path of its parent joined with that name; a
\* directory comes before its descendants; root keeps its base path; the
\* paths of all nodes differ.
C15_Names ==
  NamesAssigned =>
    /\ nodes[1].path = RootDir
    /\ Len(PreOrder(1)) = Len(nodes)
    /\ \A k \in 2..Len(nodes) :
         /\ PreOrder(1)[k] \in NodeIds \ {1}
         /\ nodes[PreOrder(1)[k]].path =
              Append(nodes[nodes[PreOrder(1)[k]].parent].path,
                     gen.name_prefix \o ToString(k - 2))
         /\ \E j \in 1..(k - 1) : PreOrder(1)[j] = nodes[PreOrder(1)[k]].parent
    /\ \A i, j \in NodeIds : i # j => nodes[i].path # nodes[j].path

C15_Witness ==
  /\ pc = "built"
  /\ \E d, i, j \in NodeIds :
       /\ nodes[d].kind = "dir" /\ nodes[d].parent = 1
       /\ nodes[i].parent = d /\ nodes[j].parent = 1
       /\ nodes[d].path = <<"root", "0">>
       /\ nodes[i].path = <<"root", "0", "1">>
       /\ nodes[j].path = <<"root", "2">>

\* The positions (from 0) at which the file of node i differs from the bytes
\* generation wrote.
Changed(i) ==
  {k \in 0..(nodes[i].fileSize - 1) :
     Entry(nodes[i].path).data[k + 1] # Contents(nodes[i])[k + 1]}

\* Node i is a generated file of unchanged size with exactly one byte
\* changed.
OneByteChanged(i) ==
  /\ nodes[i].kind = "file" /\ ~Diverges(nodes[i].fileSize)
  /\ IsFile(nodes[i].path)
  /\ Len(Entry(nodes[i].path).data) = nodes[i].fileSize
  /\ Cardinality(Changed(i)) = 1

\* The invocation verifies, with the seed of the generation, the tree a
\* completed generation wrote, after one change from outside.
VerifyAfterOneChange ==
  /\ run = 2 /\ verify /\ touched = 1
  /\ Len(hist) = 1 /\ ~hist[1].verify /\ hist[1].pc = "done"
  /\ hist[1].seed = gen.randseed
  /\ pc \in {"verify", "done", "aborted", "looping"}

\* C16: when one byte of one generated file was changed, the verification
\* runs to its end and fails; the offset computed for the file is the
\* position of the changed byte; the file is the only leaf that fails.
C16_OneByteChanged ==
  \A i \in NodeIds :
    (VerifyAfterOneChange /\ OneByteChanged(i)) =>
      /\ pc \notin {"aborted", "looping"}
      /\ FirstOffset(Generator(nodes[i].fileSeed, nodes[i].fileSize),
                     Entry(nodes[i].path).data, 0) \in Changed(i)
      /\ pc = "done" =>
           /\ ~stats.verified /\ ExitStatus = 1
           /\ vres[i] = "false"
           /\ \A j \in NodeIds \ {i} :
                nodes[j].kind # "dir" => vres[j] = "true"

\* The bytes of the first n nodes: fileSize of a generated file, the size of
\* the source file of a copy.
RECURSIVE Bytes1(_)
Bytes1(n) ==
  IF n = 0 THEN 0
  ELSE Bytes1(n - 1)
       + (CASE nodes[n].kind = "file" -> nodes[n].fileSize
            [] nodes[n].kind = "copy" -> SourceSize(nodes[n].sourcePath)
            [] OTHER -> 0)

\* C17: after the construction numDirs is the number of directories other
\* than root, which is dirs.num; numFiles is the number of file and copy
\* nodes, which is the sum of the categories' num and copied.num; numBytes
\* is the sum of the generated files' fileSize and the copies' source sizes.
C17_Stats ==
  NamesAssigned =>
    /\ stats.numDirs = gen.dirs.num
    /\ stats.numDirs =
         Cardinality({i \in NodeIds \ {1} : nodes[i].kind = "dir"})
    /\ stats.numFiles = gen.huge.num + gen.large.num + gen.medium.num
                        + gen.small.num + gen.copied.num
    /\ stats.numFiles =
         Cardinality({i \in NodeIds : nodes[i].kind \in {"file", "copy"}})
    /\ stats.numBytes = Bytes1(Len(nodes))

C17_Witness ==
  /\ pc = "built"
  /\ stats.numDirs = 1 /\ stats.numFiles = 2 /\ stats.numBytes >= 3
  /\ \E i, j \in NodeIds :
       /\ nodes[i].kind = "file" /\ nodes[i].fileSize > 0
       /\ nodes[j].kind = "copy" /\ nodes[j].sourcePath = "srcB"

\* C18: an invocation in verify mode without a seed on the command line
\* ends with a non-zero exit status with no tree object built, nothing
\* read or verified and the filesystem as it was; gen.randseed gets a
\* generated value only in an invocation that generates.
C18_VerifyNeedsSeed ==
  /\ []((run >= 1 /\ plan[run].verify /\ plan[run].seed = NoSeed) =>
          /\ pc = "refused" /\ ExitStatus # 0
          /\ gen.randseed = NoSeed
          /\ nodes = <<>> /\ stack = <<>> /\ vres = <<>>)
  /\ []((run >= 1 /\ plan[run].seed = NoSeed /\ gen.randseed # NoSeed) =>
          ~verify)
  /\ [][(run' # run /\ plan[run'].verify /\ plan[run'].seed = NoSeed) =>
          (fs' = fs)]_vars

C18_Witness ==
  /\ pc = "refused" /\ run = 2
  /\ hist[1].pc = "done" /\ ~hist[1].verify /\ hist[1].seed \in RandSeeds
  /\ \E e \in fs : e.kind = "file" /\ e.data # <<>>

\* The candidates of _attach: the elements of dirNodes.
Pool == {dirNodes[k] : k \in 1..Len(dirNodes)}

\* C19: with dirs.num >= 1 root is no candidate once the directories are
\* created, and no file or copy node is a child of root: root's children are
\* directories; with dirs.num = 0 root is the only candidate and every node
\* is a child of root.
C19_RootPool ==
  nodes # <<>> =>
    /\ gen.dirs.num >= 1 =>
         /\ pc \notin {"construct", "dirs"} => 1 \notin Pool
         /\ \A i \in NodeIds :
              nodes[i].kind \in {"file", "copy"} => nodes[i].parent # 1
         /\ \A k \in 1..Len(nodes[1].children) :
              nodes[nodes[1].children[k]].kind = "dir"
    /\ gen.dirs.num = 0 =>
         /\ Pool = {1}
         /\ \A i \in NodeIds \ {1} :
              /\ nodes[i].kind \in {"file", "copy"}
              /\ nodes[i].parent = 1
         /\ Len(nodes[1].children) = Len(nodes) - 1

C19_Witness ==
  /\ pc = "built" /\ gen.dirs.num = 1
  /\ \E i, j \in NodeIds :
       /\ nodes[i].kind = "file" /\ nodes[i].parent = 2
       /\ nodes[j].kind = "copy" /\ nodes[j].parent = 2

\* C20: a category whose counters pass the check gets exactly num file
\* nodes, bases and clones together; while its loop runs, the files created
\* and the files remaining add up to num, the remaining count is never
\* negative, and every iteration lowers it, so the loop ends.
C20_FileCount ==
  /\ [](\A k \in Categories :
          (Completed(k) /\ ~Rejected(gen[CategoryNames[k]])) =>
            Cardinality(Files(k)) = gen[CategoryNames[k]].num)
  /\ [](loc.numFiles >= 0 /\ loc.numCoal >= 0 /\ loc.numCoalLegacy >= 0)
  /\ [](pc = "files" =>
          Cardinality(Files(loc.cat)) + loc.numFiles
            = gen[CategoryNames[loc.cat]].num)
  /\ [][(pc = "files") => (loc'.numFiles < loc.numFiles)]_vars

C20_Witness ==
  /\ pc = "category"
  /\ \E k \in Categories :
       /\ Completed(k)
       /\ gen[CategoryNames[k]].coalescent = 1
       /\ gen[CategoryNames[k]].num = 2
       /\ Cardinality(Clones(k)) = 1
       /\ Draws("copies") = 1

\* The base files of category k that have clones.
Cloned(k) == {nodes[i].cloneOf : i \in Clones(k)}

\* The value the master stream yields for the clone count of the base file
\* that the next iteration of _createFileNodes creates: the draw after the
\* base file's seed, size and directory.
CopiesDraw ==
  RandomIntegers(
    Choice(FileNode(rng, CategoryNames[loc.cat]).rng, dirNodes).rng, 1, 3).val

\* C21: an iteration of _createFileNodes changes the legacy counter only when
\* the numCoalescent budget is 0; with budget 0 and a legacy counter > 0 the
\* base file gets the drawn number (1..3) of clones clamped to the files
\* remaining, by one draw, and the counter decreases by exactly 1; with both
\* at 0 no clone is made; the counter never goes below 0, and a category
\* without numCoalescent has at most `coalescent` base files with clones.
C21_Legacy ==
  /\ [](pc = "files" => loc.numCoalLegacy >= 0)
  /\ [](\A k \in Categories :
          (Completed(k) /\ gen[CategoryNames[k]].numCoalescent = 0) =>
            Cardinality(Cloned(k)) <= gen[CategoryNames[k]].coalescent)
  /\ [][(pc = "files") =>
        (/\ Len(nodes') > Len(nodes)
         /\ nodes'[Len(nodes) + 1].cloneOf = 0
         /\ loc.numCoal > 0 => loc'.numCoalLegacy = loc.numCoalLegacy
         /\ (loc.numCoal = 0 /\ loc.numCoalLegacy > 0) =>
              /\ loc'.numCoalLegacy = loc.numCoalLegacy - 1
              /\ CopiesDraw \in 1..3
              /\ Len(nodes') - (Len(nodes) + 1)
                   = Min(CopiesDraw, loc.numFiles - 1)
              /\ \A i \in (Len(nodes) + 2)..Len(nodes') :
                   nodes'[i].cloneOf = Len(nodes) + 1
              /\ Draws("copies")' = Draws("copies") + 1
         /\ (loc.numCoal = 0 /\ loc.numCoalLegacy = 0) =>
              /\ loc'.numCoalLegacy = 0
              /\ Len(nodes') = Len(nodes) + 1
              /\ Draws("copies")' = Draws("copies"))]_vars

\* A category with coalescent = 2 and no numCoalescent is done: its first
\* base file has one clone, its second came with no file left to clone.
C21_Witness ==
  \E k \in Categories :
    /\ Completed(k)
    /\ gen[CategoryNames[k]].numCoalescent = 0
    /\ gen[CategoryNames[k]].coalescent = 2
    /\ gen[CategoryNames[k]].num = 3
    /\ Cardinality(Clones(k)) = 1

\* The draws from the master stream that creating and attaching a node
\* takes, the draw of a clone count apart.
NodeDraws(node) ==
  CASE node.kind = "dir" -> <<"attach">>
    [] node.kind = "file" /\ node.cloneOf = 0 -> <<"seed", "size", "attach">>
    [] node.kind = "file" /\ node.cloneOf # 0 -> <<"attach">>
    [] node.kind = "copy" -> <<"source", "attach">>

RECURSIVE DrawsOfNodes(_)
DrawsOfNodes(k) ==
  IF k <= 1 THEN <<>> ELSE DrawsOfNodes(k - 1) \o NodeDraws(nodes[k])

\* The place of a node in the order of creation: directories, the size
\* categories in their order, copies.
Rank(node) ==
  CASE node.kind = "dir" -> 0
    [] node.kind = "file" ->
         CHOOSE k \in Categories : CategoryNames[k] = node.category
    [] node.kind = "copy" -> Len(CategoryNames) + 1

\* n successive choices from seq, from stream state s.
RECURSIVE Choices(_, _, _)
Choices(s, seq, n) ==
  IF n = 0 THEN [rng |-> s, val |-> <<>>]
  ELSE LET c == Choice(s, seq)
           rest == Choices(c.rng, seq, n - 1)
       IN  [rng |-> rest.rng, val |-> <<c.val>> \o rest.val]

\* The coalescence policy of the next iteration of _createFileNodes draws a
\* clone count.
NeedsDraw ==
  \/ loc.numCoal > 0 /\ loc.numFiles - 1 # loc.numCoal
  \/ loc.numCoal = 0 /\ loc.numCoalLegacy > 0

\* C22: the nodes are created in the order directories, huge, large, medium,
\* small, copies, and the master stream is drawn node by node: one directory
\* choice per directory; seed, size, directory choice per base file, then the
\* clone count if the policy draws one, then one directory choice per clone
\* (no seed, no size); source choice then directory choice per copy.  Each
\* value drawn is the one used, and nothing else moves the stream.
C22_DrawOrder ==
  /\ [](\A i, j \in NodeIds : (1 < i /\ i < j) => Rank(nodes[i]) <= Rank(nodes[j]))
  /\ [](SelectSeq(drawLog, LAMBDA d : d # "copies") = DrawsOfNodes(Len(nodes)))
  /\ [](\A k \in 1..Len(drawLog) :
          drawLog[k] = "copies" =>
            k > 2 /\ drawLog[k - 1] = "attach" /\ drawLog[k - 2] = "size")
  /\ [][(pc = "dirs" /\ Len(nodes') > Len(nodes)) =>
        (/\ Len(nodes') = Len(nodes) + 1
         /\ nodes'[Len(nodes')].kind = "dir"
         /\ nodes'[Len(nodes')].parent
              \in {Choice(rng, dirNodes).val,
                   nodes[Choice(rng, dirNodes).val].parent}
         /\ rng' = Choice(rng, dirNodes).rng)]_vars
  /\ [][(pc = "files") =>
        (LET seed   == RandomSeed(rng)
             size   == RandomIntegers(seed.rng, gen[CategoryNames[loc.cat]].min,
                                      gen[CategoryNames[loc.cat]].max)
             dir    == Choice(size.rng, dirNodes)
             after  == IF NeedsDraw THEN NextRaw(dir.rng) ELSE dir.rng
             base   == Len(nodes) + 1
             clones == Choices(after, dirNodes, Len(nodes') - base)
         IN  /\ Len(nodes') >= base
             /\ nodes'[base].fileSeed = seed.val
             /\ nodes'[base].fileSize = size.val
             /\ nodes'[base].parent = dir.val
             /\ \A i \in 1..(Len(nodes') - base) :
                  /\ nodes'[base + i].parent = clones.val[i]
                  /\ nodes'[base + i].cloneOf = base
             /\ Draws("copies")' = Draws("copies") + (IF NeedsDraw THEN 1 ELSE 0)
             /\ rng' = clones.rng)]_vars
  /\ [][(pc = "copies") =>
        (LET source == Choice(rng, loc.fileList)
             dir    == Choice(source.rng, dirNodes)
         IN  /\ Len(nodes') = Len(nodes) + 1
             /\ nodes'[Len(nodes')].sourcePath = source.val
             /\ nodes'[Len(nodes')].parent = dir.val
             /\ rng' = dir.rng)]_vars
  /\ [][(pc \in {"dirs", "category", "name"}
         /\ Len(nodes') = Len(nodes)) => (rng' = rng)]_vars

\* A tree is built of a base file whose policy drew a clone count, its
\* clone, and a copy.
C22_Witness ==
  /\ pc = "built"
  /\ drawLog = <<"seed", "size", "attach", "copies", "attach",
                 "source", "attach">>

\* The counter value in the name of node i (not the root).
Counter(i) ==
  CHOOSE k \in 0..Len(nodes) :
    nodes[i].path[Len(nodes[i].path)] = gen.name_prefix \o ToString(k)

Writing == ~verify /\ pc \in {"built", "write"}

\* C23: the writer changes the filesystem one node at a time, in the order
\* of the counters in the names: the step that writes node i finds the
\* directory of i's parent on disk, every node with a smaller counter
\* written and no other; the root directory is there before the writer
\* starts and the writer never creates it; a path is fsynced only with
\* gen.fsync, a directory's only when all its children are on disk and its
\* child directories have been fsynced, and after a write that ends every
\* directory has been fsynced.
C23_WriteOrder ==
  /\ [](Writing => IsDir(RootDir))
  /\ [][(Writing /\ fs' # fs) =>
        (\E i \in NodeIds \ {1} :
           /\ ~Exists(nodes[i].path)
           /\ \E e \in fs' : e.path = nodes[i].path /\ fs' = fs \cup {e}
           /\ IsDir(nodes[nodes[i].parent].path)
           /\ \A j \in NodeIds \ {1} :
                Exists(nodes[j].path) <=> Counter(j) < Counter(i))]_vars
  /\ [](~gen.fsync => synced = <<>>)
  /\ [][(Writing /\ synced' # synced) =>
        (\E i \in NodeIds :
           /\ synced' = Append(synced, nodes[i].path)
           /\ \A k \in 1..Len(synced) : synced[k] # nodes[i].path
           /\ \A k \in 1..Len(nodes[i].children) :
                \E j \in {nodes[i].children[k]} :
                  /\ Exists(nodes[j].path)
                  /\ nodes[j].kind = "dir" =>
                       \E m \in 1..Len(synced) : synced[m] = nodes[j].path)]_vars
  /\ []((pc = "done" /\ ~verify /\ gen.fsync) =>
          \A i \in NodeIds :
            nodes[i].kind = "dir" =>
              \E m \in 1..Len(synced) : synced[m] = nodes[i].path)

\* A write with gen.fsync is over: a directory with a file in it and a file
\* beside it were written and fsynced, the root last.
C23_Witness ==
  /\ pc = "done" /\ ~verify /\ gen.fsync
  /\ IsDir(<<"root", "0">>) /\ IsDir(<<"root", "0", "1">>)
  /\ IsFile(<<"root", "0", "1", "2">>)
  /\ synced = <<<<"root", "0", "1", "2">>, <<"root", "0", "1">>,
                <<"root", "0">>, <<"root">>>>

\* C24: a generation with gen.truncate set writes what it writes with
\* truncate unset: once the tree is built and named the run does not abort,
\* and at the end every generated file (whose chunk sequence is finite) has
\* the concatenated chunks as its content, hence the size fileSize.
C24_Truncate ==
  (~verify /\ gen.truncate /\ run = 1 /\ touched = 0) =>
    /\ pc = "aborted" => tree1 = <<>>
    /\ pc = "done" =>
         \A i \in NodeIds :
           (nodes[i].kind = "file" /\ ~Diverges(nodes[i].fileSize)) =>
             /\ IsFile(nodes[i].path)
             /\ Entry(nodes[i].path).data = Contents(nodes[i])

\* The number of times node i is listed as a child of node p.
Listed(p, i) ==
  Cardinality({k \in 1..Len(nodes[p].children) : nodes[p].children[k] = i})

\* C25: at every moment of the construction and after it, root has no parent
\* and depth 0, and every other node has a parent that is a directory of the
\* tree, is listed exactly once among that parent's children and nowhere
\* else, and has depth = parent.depth + 1.
C25_Parents ==
  nodes # <<>> =>
    /\ nodes[1].parent = 0 /\ nodes[1].depth = 0
    /\ \A i \in NodeIds \ {1} :
         /\ nodes[i].parent \in NodeIds \ {i}
         /\ nodes[nodes[i].parent].kind = "dir"
         /\ nodes[i].depth = nodes[nodes[i].parent].depth + 1
         /\ \A p \in NodeIds :
              Listed(p, i) = IF p = nodes[i].parent THEN 1 ELSE 0

\* The second directory drew the first one as its parent, which is at
\* maxDepth, and was attached to root, the first one's parent; a file was
\* attached after that.
C25_Witness ==
  /\ gen.dirs.num = 2 /\ gen.dirs.maxDepth = 1
  /\ Len(nodes) = 4
  /\ Choice(Choice(RandomState(View(gen.randseed, SeedBytes)), <<1>>).rng,
            <<1, 2>>).val = 2
  /\ nodes[3].kind = "dir" /\ nodes[3].parent = 1 /\ nodes[3].depth = 1
  /\ nodes[4].kind = "file" /\ nodes[4].depth = 2

\* The source file called name is not what it was when the tree was
\* generated: it was rewritten or removed.
SourceChanged(name) ==
  ~src[name].exists \/ src[name].data # SourceDir(Len(SrcNames))[name].data

\* The invocation is a verification with the seed of a generation that ran
\* to its end.
VerifyAfterGenerate ==
  /\ run = 2 /\ verify /\ pc # "refused"
  /\ Len(hist) = 1 /\ ~hist[1].verify /\ hist[1].pc = "done"

\* A copy node's verify returns True exactly when its source and its own
\* path are regular files with equal contents.
CopyVerifyExact ==
  (verify /\ vres # <<>>) =>
    \A i \in NodeIds :
      (nodes[i].kind = "copy" /\ vres[i] # "none") =>
        (vres[i] = "true" <=>
           /\ src[nodes[i].sourcePath].exists
           /\ IsFile(nodes[i].path)
           /\ Entry(nodes[i].path).data = src[nodes[i].sourcePath].data)

C27_Pool ==
  /\ [](nodes # <<>> =>
          /\ Len(dirNodes) >= 1
          /\ \A k \in 1..Len(dirNodes) :
               /\ dirNodes[k] \in NodeIds
               /\ nodes[dirNodes[k]].kind = "dir"
               /\ \A m \in 1..Len(dirNodes) : dirNodes[m] = dirNodes[k] => m = k)
  /\ [][(run' = run /\ 1 \in Pool /\ 1 \notin Pool') =>
        (Len(dirNodes) > 1 /\ dirNodes' = Tail(dirNodes) /\ nodes' = nodes)]_vars
  /\ [][(run' = run /\ nodes # <<>> /\ Len(nodes') > Len(nodes)) =>
        (\A i \in (Len(nodes) + 1)..Len(nodes') :
           \E p \in Pool : nodes'[i].parent \in {p, nodes[p].parent})]_vars
  /\ [][(pc \in {"category", "files", "copies", "name", "built", "write",
                 "verify"}) => (dirNodes' = dirNodes)]_vars

\* Root was popped from a pool of three, and a file was attached to one of
\* the two directories left.
C27_Witness ==
  /\ pc = "built"
  /\ dirNodes = <<2, 3>>
  /\ Len(nodes) = 4 /\ nodes[4].kind = "file"

\* C28: no step of a verifying invocation, its start included, changes the
\* destination filesystem.
C28_VerifyReadOnly ==
  [][(verify' /\ touched' = touched) => (fs' = fs)]_vars

\* The nodes of the subtree of node i, i included.
Subtree(i) == {PreOrder(i)[k] : k \in 1..Len(PreOrder(i))}

\* C29: the children of every directory are listed as directories first,
\* then generated files in the order huge, large, medium, small, then
\* copies; and once the names are assigned, every node in the subtree of a
\* child directory has a smaller counter than every file and copy that is a
\* child of the same directory.
C29_ChildOrder ==
  \A p \in NodeIds :
    /\ \A k, m \in 1..Len(nodes[p].children) :
         k < m => Rank(nodes[nodes[p].children[k]])
                    <= Rank(nodes[nodes[p].children[m]])
    /\ NamesAssigned =>
         \A k, m \in 1..Len(nodes[p].children) :
           (/\ nodes[nodes[p].children[k]].kind = "dir"
            /\ nodes[nodes[p].children[m]].kind # "dir") =>
             \A j \in Subtree(nodes[p].children[k]) :
               Counter(j) < Counter(nodes[p].children[m])

\* A directory holds a subdirectory and a copy: the subdirectory is listed
\* and named before the copy.
C29_Witness ==
  /\ pc = "built"
  /\ \E d, s, g \in NodeIds :
       /\ nodes[d].path = <<"root", "0">> /\ nodes[d].children = <<s, g>>
       /\ nodes[s].kind = "dir" /\ nodes[s].path = <<"root", "0", "1">>
       /\ nodes[g].kind = "copy" /\ nodes[g].path = <<"root", "0", "2">>

\* The number of times sector s is listed under hash h.
ListedUnder(h, s) ==
  IF h \in DOMAIN traceFile.hashToSectors
  THEN Cardinality({k \in 1..Len(traceFile.hashToSectors[h]) :
                      traceFile.hashToSectors[h][k] = s})
  ELSE 0

\* The step processes a read of a tracked sector whose hash is not the
\* tracked one.
MismatchedRead ==
  /\ traceTuples.state = "loop"
  /\ traceTuples'.n = traceTuples.n + 1
  /\ traceTuples'.last[1] = readOp
  /\ int(traceTuples'.last[2]) \in DOMAIN traceFile.sectorToHash
  /\ traceTuples'.last[3] # SectorHash(traceFile, int(traceTuples'.last[2]))

\* C30: after any sequence of discard, write and read tuples no exception
\* has ended the loop, and a sector is listed under hash h, once, exactly
\* when the sector-to-hash map records h for it, and is listed under no
\* other hash; a read of a tracked sector with another hash than the tracked
\* one appends one mismatch (of that sector, the tracked hash expected, the
\* read hash found) and changes neither the tracked hashes nor the lists.
C30_Indexes ==
  /\ [](traceTuples.state \in {"loop", "break"})
  /\ [](\A s \in Sectors, h \in Hashes \cup DOMAIN traceFile.hashToSectors :
          ListedUnder(h, s) =
            IF s \in DOMAIN traceFile.sectorToHash
               /\ SectorHash(traceFile, s) = h
            THEN 1 ELSE 0)
  /\ [][MismatchedRead =>
        (/\ Len(traceFile'.mismatches) = Len(traceFile.mismatches) + 1
         /\ \E m \in {traceFile'.mismatches[Len(traceFile'.mismatches)]} :
              /\ m.sector = int(traceTuples'.last[2])
              /\ m.expectedHash = SectorHash(traceFile, m.sector)
              /\ m.actualHash = traceTuples'.last[3]
         /\ SubSeq(traceFile'.mismatches, 1, Len(traceFile.mismatches))
              = traceFile.mismatches
         /\ DOMAIN traceFile'.sectorToHash = DOMAIN traceFile.sectorToHash
         /\ \A s \in DOMAIN traceFile.sectorToHash :
              SectorHash(traceFile', s) = SectorHash(traceFile, s)
         /\ traceFile'.hashToSectors = traceFile.hashToSectors)]_vars
  /\ [][(traceTuples'.n # traceTuples.n /\ ~MismatchedRead) =>
        (traceFile'.mismatches = traceFile.mismatches)]_vars

\* Sector 0 was written with hash a, then sector 1, then sector 0 again; a
\* read of sector 0 found hash b: the mismatch lists both sectors under the
\* expected hash, and sector 0 is still tracked with hash a.
C30_Witness ==
  /\ traceTuples.last = <<readOp, "0", "b">>
  /\ DOMAIN traceFile.hashToSectors = {"a"}
  /\ traceFile.hashToSectors["a"] = <<1, 0>>
  /\ traceFile.sectorToHash[0] = [hash |-> "a", single |-> FALSE]
  /\ traceFile.mismatches = <<Mismatch(0, "a", "b", <<0, 1>>, <<>>)>>

====
